---- MODULE Spec2Model ----
(***************************************************************************)
(* A model of the task-processing engine of the Dria oracle node:          *)
(*   - the dispatcher handle_request and the generation / validation       *)
(*     handlers, step by step, against the coordinator contract's          *)
(*     responses and validations and the pending transactions              *)
(*     (specification Spec);                                               *)
(*   - the event loop run_oracle with its backfill, live subscription,     *)
(*     reconnect and cancellation (specification SpecLoop).                *)
(***************************************************************************)
EXTENDS Integers, Sequences, FiniteSets, TLC

\* ------------------------------------------------------------------------
\* Bounds of the model
\* ------------------------------------------------------------------------
\* number of task ids on the coordinator
MaxTask == 1
\* number of transactions the worker may send in one behaviour
MaxSent == 2
\* number of StatusUpdate events the coordinator emits in one behaviour
MaxEvents == 3
\* number of error items the event stream yields in one behaviour
MaxStreamErrors == 1
\* the longest kinds argument
MaxKinds == 2
\* the most generation responses of a task
MaxGens == 2
\* the most results the validation model returns
MaxResults == 2
\* the longest value handed to put_if_large, in bytes
MaxLen == 3
\* the largest history_id of a chat-history request
MaxHistoryId == 2
\* the largest nextTaskId of the coordinator
MaxNextTask == 2
\* the most segments an LLM output is made of
MaxSegs == 4
\* the largest nonce the miner tries in the model
MaxNonce == 3

\* the largest token amount: stakes, fees, balances and allowances
MaxAmount == 3
\* the most tasks of a chain of chat tasks
MaxChat == 3

\* ------------------------------------------------------------------------
\* Data
\* ------------------------------------------------------------------------
Tasks == 1..MaxTask

\* the worker's own address (node.address()) and some other oracle's
Self == "w"
Other == "o"
Addrs == {Self, Other}

OracleKind == {"Generator", "Validator"}

TaskStatus == {"None", "PendingGeneration", "PendingValidation", "Completed"}

\* the bytes an event's status field is drawn from; 4 is no TaskStatus
StatusBytes == 0..4

\* DEFAULT_BYTE_LIMIT of the blob store, 1024 in the code, in the model's bytes
DEFAULT_BYTE_LIMIT == 2

\* TaskStatus::try_from(u8): the status of a byte, "Invalid" for an error
TryFromStatus(b) ==
    CASE b = 0 -> "None"
      [] b = 1 -> "PendingGeneration"
      [] b = 2 -> "PendingValidation"
      [] b = 3 -> "Completed"
      [] OTHER -> "Invalid"

\* the builds of the dispatcher found in the repository
\*   "core"   core/src/compute/handler.rs   (kinds taken from the node)
\*   "kinds"  src/compute/handler.rs        (kinds passed as an argument)
\*   "legacy" src/compute/handlers.rs       (takes the event, parses the status)
Builds == {"core", "kinds", "legacy"}

\* handle_generation responding before the uploads and the nonce
GenOrder_Mut ==
    << "guard", "request", "model", "protocol", "input", "execute",
       "postprocess", "respond", "offload", "nonce" >>

\* the steps of handle_generation, in the order of the code
GenOrder ==
    << "guard", "request", "model", "protocol", "input", "execute",
       "postprocess", "offload", "nonce", "respond" >>

\* the steps of handle_validation, in the order of the code
ValOrder ==
    << "guard", "validated", "request", "responses", "input", "execute",
       "serialize", "offload", "nonce", "respond" >>

VARIABLES
    \* --- the start of the node (run_oracle, prepare_oracle)
    passed,         \* the kinds argument, a Vec
    registered,     \* the kinds the node is registered for on chain
    models,         \* the models argument: none, other, gpt4o
    whitelisted,    \* the node is whitelisted in the registry
    prepPc,         \* position of the start: kinds, models, services, validator,
                    \* done, failed
    prepIdx,        \* index of the kind whose registration is checked next
    \* --- a write operation of the node (registry.rs, token.rs, coordinator.rs)
    wop,            \* the operation: register, ..., validate
    txTimeout,      \* config.tx_timeout: None or Some
    gasPrice,       \* what provider.get_gas_price() returns
    wpc,            \* position: idle, start, send, sleep, wait, done
    attempt,        \* index into GAS_PRICE_HIKES of the attempt to make
    sendLog,        \* the sends made, in order: path, hike, price, outcome
    lost,           \* the transaction that was accepted will never be mined
    wresult,        \* none, Receipt, or the error the operation returns
    \* --- the computation of the scores in handle_validation
    nGens,          \* number of generation responses of the task
    vresults,       \* final_score of each result the validation model returned
    scores,         \* the scores vector passed to respond_validation
    vpc,            \* idle, execute, done, failed
    \* --- the blob store (storage/src/arweave.rs)
    byte_limit,     \* ArweaveStorage.byte_limit
    wallet,         \* ArweaveStorage.wallet: None or Some
    value,          \* the argument of put_if_large
    arweave,        \* the network: transaction id -> the data uploaded
    uploads,        \* uploads made by the call of put_if_large
    putResult,      \* the bytes put_if_large returned
    fetched,        \* the bytes get returned for the key in putResult
    stPc,           \* idle, call, returned, failed, fetched, fetchFailed
    \* --- the input resolver (try_parse_bytes, parse_downloadable)
    input_bytes,    \* the argument of try_parse_bytes
    parsed,         \* the RequestType returned: variant and text
    parsePc,        \* idle, call, done, failed
    \* --- execute_generation (generation/execute.rs)
    request,        \* the GenerationRequest: variant and history_id
    hasNode,        \* node: Option<&DriaOracle> is Some
    nextTaskId,     \* coordinator.nextTaskId
    calls,          \* the contract reads made by the call, in order
    history,        \* the message history: roles of the messages, in order
    llm,            \* executor.execute: none, running, returned, timedout
    timer,          \* the execution races a tokio::time::sleep
    hangs,          \* the LLM call never returns
    epc,            \* idle, start, nextTaskId, getBestResponse, parse,
                    \* requests, execute, done, failed
    eresult,        \* none, Ok, or the error returned
    \* --- the post-processing of handle_generation
    protocol,       \* the protocol tag of the task, a bytes32
    output,         \* the output of the LLM
    post,           \* what post_process returned: output, metadata, use_storage
    postPc,         \* idle, call, done, failed
    \* --- the nonce miner (mine_nonce)
    difficulty,     \* request.parameters.difficulty
    keccak,         \* nonce -> the hash of the preimage that ends with it
    nonce,          \* the nonce the search is at
    minePc,         \* idle, search, done, exhausted
    \* --- execute_workflow_with_timedout_retries (compute/execute.rs)
    duration,       \* the timeout of an attempt: max_time or default
    retries,        \* the local retries
    attempts,       \* how each attempt made so far ended, in order
    retryPc,        \* idle, loop, attempt, done
    rresult,        \* none, Ok, or the error returned
    \* --- configuration of the run
    build,          \* which build of the dispatcher runs
    kinds,          \* node.kinds / the kinds argument
    \* --- the coordinator contract and the pending transactions
    responses,      \* task -> responders of the recorded generation responses
    validations,    \* task -> validators of the recorded validations
    pendingResp,    \* task -> respond transactions of the worker not yet mined
    pendingVal,     \* task -> validate transactions of the worker not yet mined
    sentRespond,    \* task -> respond transactions the worker has sent
    sentValidate,   \* task -> validate transactions the worker has sent
    \* --- the handler invocation in progress
    pc,             \* position in handle_request / the handler
    task,           \* task_id of the invocation
    status,         \* status of the invocation
    handler,        \* handler the dispatcher ran: none, generation, validation
    result,         \* none, Ignored (Ok(None)), Receipt (Ok(Some)), Err, Panic
    steps,          \* steps of the handler entered so far, in order
    sentThis,       \* transactions sent by this invocation
    readChain,      \* this invocation has made a contract read
    uploadsThis,    \* blob uploads made by this invocation
    useStorage,     \* the post-processor's offload flag
    guardSaw,       \* what the guards read: none, failed, own, clear, validated
    ownAtStart,     \* the worker's response was recorded when the invocation began
    \* --- the event loop
    mode,           \* run_oracle (backfill, then subscription) or range
    fromBlock,      \* from_block: 0 for Latest, else the block of the first event
    toBlock,        \* the --to argument: 0 if not supplied, else the last block
    txWait,         \* the handler in progress has sent its transaction and
                    \* waits for the receipt
    chainLog,       \* the StatusUpdate events emitted, event i in block i
    loop,           \* position of the loop
    queue,          \* events of the backfill query not yet iterated
    queried,        \* last block the backfill query returned, 0 before it
    queryOk,        \* the backfill query did not fail
    streamNext,     \* next block the open subscription yields, 0 while closed
    streamErrors,   \* error items the stream has yielded
    reconnects,     \* the stream has ended at least once
    dispatched,     \* blocks of the events passed to handle_request, in order
    lastOutcome,    \* what the last handle_request returned to the loop
    cancelAt,       \* position of the loop when the token was cancelled, or none
    loopResult,     \* running, Ok or Err: what the loop returned
    \* --- the token approvals of the register and request commands
    cmd,            \* the command: register or request_task
    stake,          \* the registry's stake amount for the kind
    total_fee,      \* the coordinator's total fee for the request
    balance,        \* the caller's token balance
    allowance,      \* the token's allowance of the caller to the spender
    is_registered,  \* the registry's isRegistered(caller, kind)
    approvals,      \* the amounts of the approve transactions mined, in order
    tokPc,          \* position in the command
    tokResult,      \* none, Ok or the error the command returned
    \* --- the end of a handler: storage, nonce, response
    tailHandler,    \* generation or validation
    env_wallet,     \* ARWEAVE_WALLET_PATH of the environment: None or Some
    treq,           \* the task: its id, the request's difficulty, requester, input
    tinput,         \* the input after parse_downloadable
    tpost,          \* (output, metadata, use_storage) before the storage step
    toutput,        \* output after the storage step
    tmetadata,      \* metadata after the storage step
    tuploads,       \* the values uploaded, in order
    preimage,       \* the arguments of mine_nonce: none or one
    tnonce,         \* the nonce mine_nonce returned
    tsent,          \* the arguments of the respond transaction: none or one
    tailPc,         \* position in the end of the handler
    tailResult,     \* none, Ok or the error the handler returned
    \* --- prepare_oracle and the model choice
    node_kinds,     \* node.kinds
    node_workflows, \* node.workflows.models
    regKinds,       \* the kinds the registry has the node registered as
    wlisted,        \* the registry has the node whitelisted
    pkinds,         \* prepare_oracle's kinds: the argument, pushed to
    pmodels,        \* prepare_oracle's models argument
    model_config,   \* the models of prepare_oracle's model_config
    poPc,           \* position in prepare_oracle
    poResult,       \* none, Ok or Err: what prepare_oracle returned
    selRequest,     \* request.models of the task handle_generation handles
    selModel,       \* the model handle_generation chose
    selResult,      \* none, Ok, the handler's error, or Panic
    \* --- chains of chat tasks
    stored          \* task -> its request and its best response's output

prepVars == << passed, registered, models, whitelisted, prepPc, prepIdx >>
writeVars == << wop, txTimeout, gasPrice, wpc, attempt, sendLog, lost, wresult >>
storeVars ==
    << byte_limit, wallet, value, arweave, uploads, putResult, fetched, stPc >>
parseVars == << input_bytes, parsed, parsePc >>
execVars ==
    << request, hasNode, nextTaskId, calls, history, llm, timer, hangs, epc,
       eresult >>
postVars == << protocol, output, post, postPc >>
mineVars == << difficulty, keccak, nonce, minePc >>
retryVars == << duration, retries, attempts, retryPc, rresult >>
tokenVars ==
    << cmd, stake, total_fee, balance, allowance, is_registered, approvals,
       tokPc, tokResult >>
tailVars ==
    << tailHandler, env_wallet, treq, tinput, tpost, toutput, tmetadata,
       tuploads, preimage, tnonce, tsent, tailPc, tailResult >>
prepareVars ==
    << node_kinds, node_workflows, regKinds, wlisted, pkinds, pmodels,
       model_config, poPc, poResult, selRequest, selModel, selResult >>
chatVars == << stored >>
auxVars == << tokenVars, tailVars, prepareVars, chatVars >>
compVars ==
    << storeVars, parseVars, execVars, postVars, mineVars, retryVars, auxVars >>
pureVars == << nGens, vresults, scores, vpc, compVars >>
nodeVars == << prepVars, writeVars, pureVars >>
cfgVars == << build, kinds >>
chainVars ==
    << responses, validations, pendingResp, pendingVal, sentRespond, sentValidate >>
invVars ==
    << pc, task, status, handler, result, steps, sentThis, readChain,
       uploadsThis, useStorage, guardSaw, ownAtStart >>

loopVars ==
    << mode, fromBlock, toBlock, txWait, chainLog, loop, queue, queried, queryOk, streamNext,
       streamErrors, reconnects, dispatched, lastOutcome, cancelAt, loopResult >>

vars == << nodeVars, cfgVars, chainVars, invVars, loopVars >>

RECURSIVE SumTo(_, _)
SumTo(f, n) == IF n = 0 THEN 0 ELSE f[n] + SumTo(f, n - 1)

\* transactions the worker has sent so far
TotalSent == SumTo(sentRespond, MaxTask) + SumTo(sentValidate, MaxTask)

\* ------------------------------------------------------------------------
\* The dispatcher
\* ------------------------------------------------------------------------

\* handle_request with the role checks of the two arms exchanged
handle_request_Mut(st, ks) ==
    CASE st = "PendingGeneration" ->
             IF "Validator" \in ks THEN "generation" ELSE "ignored"
      [] st = "PendingValidation" ->
             IF "Generator" \in ks THEN "validation" ELSE "ignored"
      [] st = "Completed" -> "ignored"
      [] st = "None" -> "ignored"

\* handle_request of core/src/compute/handler.rs: the route of a status
handle_request(st, ks) ==
    CASE st = "PendingGeneration" ->
             IF "Generator" \in ks THEN "generation" ELSE "ignored"
      [] st = "PendingValidation" ->
             IF "Validator" \in ks THEN "validation" ELSE "ignored"
      [] st = "Completed" -> "ignored"
      [] st = "None" -> "ignored"

\* handle_request of src/compute/handler.rs, whose kinds are an argument
handle_request_kinds(st, ks) ==
    CASE st = "PendingGeneration" ->
             IF "Generator" \in ks THEN "generation" ELSE "ignored"
      [] st = "PendingValidation" ->
             IF "Validator" \in ks THEN "validation" ELSE "ignored"
      [] st = "Completed" -> "ignored"
      [] st = "None" -> "ignored"

\* handle_request of src/compute/handlers.rs, which parses event.statusAfter
\* itself (an error for a byte that is no status) and holds None unreachable
handle_request_legacy(b, ks) ==
    LET st == TryFromStatus(b) IN
    CASE st = "Invalid" -> "error"
      [] st = "PendingGeneration" ->
             IF "Generator" \in ks THEN "generation" ELSE "ignored"
      [] st = "PendingValidation" ->
             IF "Validator" \in ks THEN "validation" ELSE "ignored"
      [] st = "None" -> "panic"
      [] st = "Completed" -> "ignored"

\* the result with which the dispatcher itself returns on a route, "none"
\* while a handler runs
RouteResult(route) ==
    CASE route = "ignored" -> "Ignored"
      [] route = "error" -> "Err"
      [] route = "panic" -> "Panic"
      [] OTHER -> "none"

\* the step after s in the handler's order, "wait" (the receipt wait of the
\* respond call) after the last one
NextStep(order, s) ==
    LET i == CHOOSE k \in 1..Len(order) : order[k] = s IN
    IF i < Len(order) THEN order[i + 1] ELSE "wait"

\* a new invocation starts with a clean record
Enter(t, st, route) ==
    /\ pc \in {"idle", "done"}
    /\ task' = t
    /\ status' = st
    /\ handler' = IF route \in {"generation", "validation"} THEN route ELSE "none"
    /\ result' = RouteResult(route)
    /\ steps' = << >>
    /\ sentThis' = 0
    /\ readChain' = FALSE
    /\ uploadsThis' = 0
    /\ useStorage' = FALSE
    /\ guardSaw' = "none"
    /\ ownAtStart' = (Self \in responses[t])
    /\ UNCHANGED << loopVars, nodeVars, cfgVars, chainVars >>

\* handle_request(node, status, task_id, protocol), builds core and kinds
HandleRequest(t, st) ==
    /\ build \in {"core", "kinds"}
    /\ LET route == IF build = "core" THEN handle_request(st, kinds)
                    ELSE handle_request_kinds(st, kinds) IN
       /\ Enter(t, st, route)
       /\ pc' = CASE route = "generation" -> Head(GenOrder)
                 [] route = "validation" -> Head(ValOrder)
                 [] OTHER -> "done"

\* handle_request(node, kinds, model_config, event, log), build legacy
HandleRequestLegacy(t, b) ==
    /\ build = "legacy"
    /\ LET route == handle_request_legacy(b, kinds) IN
       /\ Enter(t, TryFromStatus(b), route)
       /\ pc' = IF route \in {"generation", "validation"} THEN "legacy" ELSE "done"

\* ------------------------------------------------------------------------
\* Steps shared by the handlers
\* ------------------------------------------------------------------------

\* the step s is entered and succeeds: on to the next step of the order
Proceed(order, s) ==
    /\ steps' = Append(steps, s)
    /\ pc' = NextStep(order, s)
    /\ result' = result

\* the step s is entered and the handler returns r from it
Return(s, r) ==
    /\ steps' = Append(steps, s)
    /\ pc' = "done"
    /\ result' = r

\* the guard comparing the responders with another address than the worker's
AlreadyResponded_Mut(rs) == Other \in rs

\* responses.iter().any(|r| r.responder == node.address()) of handle_generation
AlreadyResponded(rs) == Self \in rs

\* the guard comparing the responders with another address than the worker's
OwnGeneration_Mut(rs) == Other \in rs

\* responses.iter().any(|r| r.responder == node.address()) of handle_validation
OwnGeneration(rs) == Self \in rs

\* validations.iter().any(|v| v.validator == node.address())
AlreadyValidated(vs) == Self \in vs

\* a step that reads or computes and may fail with an error (the ? operator);
\* reads tells whether it reads the contract
FallibleStep(order, s, reads) ==
    /\ readChain' = (readChain \/ reads)
    /\ \E ok \in BOOLEAN :
         IF ok THEN Proceed(order, s) ELSE Return(s, "Err")
    /\ UNCHANGED << loopVars, nodeVars, cfgVars, chainVars, task, status, handler, sentThis,
                    uploadsThis, useStorage, guardSaw, ownAtStart >>

\* the outcomes of the uploads of a handler: outUp and metaUp tell whether the
\* output and the metadata exceed the byte limit and are uploaded, fail names
\* the call that fails: "env" (ArweaveStorage::new_from_env), "out", "meta"
OffloadOutcomes(offloadOutput) ==
    { o \in [outUp : BOOLEAN, metaUp : BOOLEAN, fail : {"none", "env", "out", "meta"}] :
        /\ (o.outUp => offloadOutput)
        /\ (o.fail = "out" => o.outUp)
        /\ (o.fail = "meta" => o.metaUp) }

\* the uploads completed under an outcome
Uploaded(o) ==
    CASE o.fail = "env" -> 0
      [] o.fail = "out" -> 0
      [] o.fail = "meta" -> IF o.outUp THEN 1 ELSE 0
      [] OTHER -> (IF o.outUp THEN 1 ELSE 0) + (IF o.metaUp THEN 1 ELSE 0)

\* the offload step of either handler
OffloadStep(order, offloadOutput) ==
    /\ \E o \in OffloadOutcomes(offloadOutput) :
         /\ uploadsThis' = uploadsThis + Uploaded(o)
         /\ IF o.fail = "none" THEN Proceed(order, "offload")
            ELSE Return("offload", "Err")
    /\ UNCHANGED << loopVars, nodeVars, cfgVars, chainVars, task, status, handler, sentThis,
                    readChain, useStorage, guardSaw, ownAtStart >>

\* ------------------------------------------------------------------------
\* handle_generation (core/src/compute/generation/handler.rs)
\* ------------------------------------------------------------------------

\* 1. the own-response guard: getResponses, Ok(None) if the worker responded
GenGuard ==
    /\ handler = "generation" /\ pc = "guard"
    /\ readChain' = TRUE
    /\ \E ok \in BOOLEAN :
         /\ guardSaw' = IF ~ok THEN "failed"
                        ELSE IF Self \in responses[task] THEN "own" ELSE "clear"
         /\ IF ~ok THEN Return("guard", "Err")
            ELSE IF AlreadyResponded(responses[task]) THEN Return("guard", "Ignored")
            ELSE Proceed(GenOrder, "guard")
    /\ UNCHANGED << loopVars, nodeVars, cfgVars, chainVars, task, status, handler, sentThis,
                    uploadsThis, useStorage, ownAtStart >>

\* 2. coordinator.requests(task_id)
GenRequestFetch ==
    /\ handler = "generation" /\ pc = "request"
    /\ FallibleStep(GenOrder, "request", TRUE)

\* 3. bytes_to_string(&request.models)?, then the matching or the fallback model
GenModelChoice ==
    /\ handler = "generation" /\ pc = "model"
    /\ FallibleStep(GenOrder, "model", FALSE)

\* 4. bytes32_to_string(&protocol)?
GenProtocolParse ==
    /\ handler = "generation" /\ pc = "protocol"
    /\ FallibleStep(GenOrder, "protocol", FALSE)

\* 5. GenerationRequest::try_parse_bytes(&request.input)
GenInputResolve ==
    /\ handler = "generation" /\ pc = "input"
    /\ FallibleStep(GenOrder, "input", FALSE)

\* 6. execute_generation(&input, model, Some(node)); for a chat history it
\*    reads nextTaskId, getBestResponse and requests, and it writes nothing
GenExecute ==
    /\ handler = "generation" /\ pc = "execute"
    /\ FallibleStep(GenOrder, "execute", TRUE)

\* 7. the post-processor of the protocol: Swan may fail and does not offload
\*    its output, the identity never fails and offloads it
GenPostProcess ==
    /\ handler = "generation" /\ pc = "postprocess"
    /\ \E swan \in BOOLEAN, ok \in BOOLEAN :
         /\ (~ok => swan)
         /\ useStorage' = ~swan
         /\ IF ok THEN Proceed(GenOrder, "postprocess")
            ELSE Return("postprocess", "Err")
    /\ UNCHANGED << loopVars, nodeVars, cfgVars, chainVars, task, status, handler, sentThis,
                    readChain, uploadsThis, guardSaw, ownAtStart >>

\* 8. ArweaveStorage::new_from_env()?, put_if_large of output and metadata
GenOffload ==
    /\ handler = "generation" /\ pc = "offload"
    /\ OffloadStep(GenOrder, useStorage)

\* 9. mine_nonce(..).nonce
GenMineNonce ==
    /\ handler = "generation" /\ pc = "nonce"
    /\ Proceed(GenOrder, "nonce")
    /\ UNCHANGED << loopVars, nodeVars, cfgVars, chainVars, task, status, handler, sentThis,
                    readChain, uploadsThis, useStorage, guardSaw, ownAtStart >>

\* 10a. respond_generation: send_with_gas_hikes(coordinator.respond(..)); the
\*      transaction is accepted by the provider, or the send fails
GenRespondSend ==
    /\ handler = "generation" /\ pc = "respond"
    /\ \E ok \in BOOLEAN :
         IF ok
         THEN /\ TotalSent < MaxSent
              /\ sentRespond' = [sentRespond EXCEPT ![task] = @ + 1]
              /\ pendingResp' = [pendingResp EXCEPT ![task] = @ + 1]
              /\ sentThis' = sentThis + 1
              /\ Proceed(GenOrder, "respond")
         ELSE /\ UNCHANGED << sentRespond, pendingResp, sentThis >>
              /\ Return("respond", "Err")
    /\ UNCHANGED << loopVars, nodeVars, cfgVars, responses, validations, pendingVal, sentValidate,
                    task, status, handler, readChain, uploadsThis, useStorage,
                    guardSaw, ownAtStart >>

\* a pending respond transaction of the worker is mined: the coordinator
\* records the response unless the worker has one already (it reverts then);
\* accept = FALSE is a revert for any other reason. Nothing changes when no
\* transaction is pending.
RecordResponse(t, accept) ==
    IF pendingResp[t] = 0 THEN UNCHANGED << pendingResp, responses >>
    ELSE /\ pendingResp' = [pendingResp EXCEPT ![t] = @ - 1]
         /\ responses' = IF accept /\ Self \notin responses[t]
                         THEN [responses EXCEPT ![t] = @ \cup {Self}]
                         ELSE responses

\* the same for a pending validate transaction
RecordValidation(t, accept) ==
    IF pendingVal[t] = 0 THEN UNCHANGED << pendingVal, validations >>
    ELSE /\ pendingVal' = [pendingVal EXCEPT ![t] = @ - 1]
         /\ validations' = IF accept /\ Self \notin validations[t]
                           THEN [validations EXCEPT ![t] = @ \cup {Self}]
                           ELSE validations

\* 10b. respond_generation: wait_for_tx; the receipt arrives (the transaction
\*      is mined, recorded or reverted) or the wait fails (timeout, transport)
GenRespondWait ==
    /\ handler = "generation" /\ pc = "wait"
    /\ \E receipt \in BOOLEAN, accept \in BOOLEAN :
         IF receipt
         THEN /\ RecordResponse(task, accept)
              /\ pc' = "done" /\ result' = "Receipt"
         ELSE /\ ~accept
              /\ UNCHANGED << pendingResp, responses >>
              /\ pc' = "done" /\ result' = "Err"
    /\ UNCHANGED << loopVars, nodeVars, cfgVars, validations, pendingVal, sentRespond, sentValidate,
                    task, status, handler, steps, sentThis, readChain,
                    uploadsThis, useStorage, guardSaw, ownAtStart >>

\* ------------------------------------------------------------------------
\* handle_validation (core/src/compute/validation/handler.rs)
\* ------------------------------------------------------------------------

\* 1. getResponses: Ok(None) if the worker is a generator of the task
ValGuard ==
    /\ handler = "validation" /\ pc = "guard"
    /\ readChain' = TRUE
    /\ \E ok \in BOOLEAN :
         /\ guardSaw' = IF ~ok THEN "failed"
                        ELSE IF Self \in responses[task] THEN "own" ELSE "clear"
         /\ IF ~ok THEN Return("guard", "Err")
            ELSE IF OwnGeneration(responses[task]) THEN Return("guard", "Ignored")
            ELSE Proceed(ValOrder, "guard")
    /\ UNCHANGED << loopVars, nodeVars, cfgVars, chainVars, task, status, handler, sentThis,
                    uploadsThis, useStorage, ownAtStart >>

\* 2. getValidations: Err("Already validated") if the worker has validated
ValAlreadyValidated ==
    /\ handler = "validation" /\ pc = "validated"
    /\ readChain' = TRUE
    /\ \E ok \in BOOLEAN :
         /\ guardSaw' = IF ok /\ AlreadyValidated(validations[task])
                        THEN "validated" ELSE guardSaw
         /\ IF ~ok \/ AlreadyValidated(validations[task])
            THEN Return("validated", "Err")
            ELSE Proceed(ValOrder, "validated")
    /\ UNCHANGED << loopVars, nodeVars, cfgVars, chainVars, task, status, handler, sentThis,
                    uploadsThis, useStorage, ownAtStart >>

\* 3. coordinator.requests(task_id)
ValRequestFetch ==
    /\ handler = "validation" /\ pc = "request"
    /\ FallibleStep(ValOrder, "request", TRUE)

\* 4. getResponses again, parse_downloadable of each response's metadata
ValResponsesFetch ==
    /\ handler = "validation" /\ pc = "responses"
    /\ FallibleStep(ValOrder, "responses", TRUE)

\* 5. parse_downloadable(&request.input)
ValInputResolve ==
    /\ handler = "validation" /\ pc = "input"
    /\ FallibleStep(ValOrder, "input", FALSE)

\* 6. execute_validations(input, generations, model)
ValExecute ==
    /\ handler = "validation" /\ pc = "execute"
    /\ FallibleStep(ValOrder, "execute", FALSE)

\* 7. the scores and serde_json::to_string(&validations)
ValSerialize ==
    /\ handler = "validation" /\ pc = "serialize"
    /\ FallibleStep(ValOrder, "serialize", FALSE)

\* 8. ArweaveStorage::new_from_env()?, put_if_large of the metadata
ValOffload ==
    /\ handler = "validation" /\ pc = "offload"
    /\ OffloadStep(ValOrder, FALSE)

\* 9. mine_nonce(..).nonce
ValMineNonce ==
    /\ handler = "validation" /\ pc = "nonce"
    /\ Proceed(ValOrder, "nonce")
    /\ UNCHANGED << loopVars, nodeVars, cfgVars, chainVars, task, status, handler, sentThis,
                    readChain, uploadsThis, useStorage, guardSaw, ownAtStart >>

\* 10a. respond_validation: send_with_gas_hikes(coordinator.validate(..))
ValRespondSend ==
    /\ handler = "validation" /\ pc = "respond"
    /\ \E ok \in BOOLEAN :
         IF ok
         THEN /\ TotalSent < MaxSent
              /\ sentValidate' = [sentValidate EXCEPT ![task] = @ + 1]
              /\ pendingVal' = [pendingVal EXCEPT ![task] = @ + 1]
              /\ sentThis' = sentThis + 1
              /\ Proceed(ValOrder, "respond")
         ELSE /\ UNCHANGED << sentValidate, pendingVal, sentThis >>
              /\ Return("respond", "Err")
    /\ UNCHANGED << loopVars, nodeVars, cfgVars, responses, validations, pendingResp, sentRespond,
                    task, status, handler, readChain, uploadsThis, useStorage,
                    guardSaw, ownAtStart >>

\* 10b. respond_validation: wait_for_tx
ValRespondWait ==
    /\ handler = "validation" /\ pc = "wait"
    /\ \E receipt \in BOOLEAN, accept \in BOOLEAN :
         IF receipt
         THEN /\ RecordValidation(task, accept)
              /\ pc' = "done" /\ result' = "Receipt"
         ELSE /\ ~accept
              /\ UNCHANGED << pendingVal, validations >>
              /\ pc' = "done" /\ result' = "Err"
    /\ UNCHANGED << loopVars, nodeVars, cfgVars, responses, pendingResp, sentRespond, sentValidate,
                    task, status, handler, steps, sentThis, readChain,
                    uploadsThis, useStorage, guardSaw, ownAtStart >>

\* ------------------------------------------------------------------------
\* The handlers of the legacy build (src/compute/handlers.rs), each as one step
\* ------------------------------------------------------------------------

\* where a legacy handler ends: a failed read or step before the send, a failed
\* send, a receipt, or a failed receipt wait after the send
LegacyOutcomes == {"failed", "send_failed", "receipt", "wait_failed"}

\* handle_generation: Err if the worker has responded, else request, model,
\* execution, nonce and respond_generation (send, then get_receipt)
LegacyHandleGeneration ==
    /\ handler = "generation" /\ pc = "legacy"
    /\ \E o \in LegacyOutcomes :
         LET sends == (o \in {"receipt", "wait_failed"}) /\ Self \notin responses[task] IN
         /\ sends => TotalSent < MaxSent
         /\ guardSaw' = IF Self \in responses[task] THEN "own" ELSE "clear"
         /\ result' = IF sends /\ o = "receipt" THEN "Receipt" ELSE "Err"
         /\ sentThis' = IF sends THEN 1 ELSE 0
         /\ sentRespond' = IF sends THEN [sentRespond EXCEPT ![task] = @ + 1]
                           ELSE sentRespond
         /\ pendingResp' = IF sends /\ o = "wait_failed"
                           THEN [pendingResp EXCEPT ![task] = @ + 1]
                           ELSE pendingResp
         /\ responses' = IF sends /\ o = "receipt"
                         THEN [responses EXCEPT ![task] = @ \cup {Self}]
                         ELSE responses
    /\ pc' = "done"
    /\ readChain' = TRUE
    /\ UNCHANGED << loopVars, nodeVars, cfgVars, validations, pendingVal, sentValidate, task, status,
                    handler, steps, uploadsThis, useStorage, ownAtStart >>

\* handle_validation: Err if the worker generated or validated, else request,
\* nonce and respond_validation (send, then get_receipt)
LegacyHandleValidation ==
    /\ handler = "validation" /\ pc = "legacy"
    /\ \E o \in LegacyOutcomes :
         LET sends == /\ o \in {"receipt", "wait_failed"}
                      /\ Self \notin responses[task]
                      /\ Self \notin validations[task] IN
         /\ sends => TotalSent < MaxSent
         /\ guardSaw' = IF Self \in responses[task] THEN "own" ELSE "clear"
         /\ result' = IF sends /\ o = "receipt" THEN "Receipt" ELSE "Err"
         /\ sentThis' = IF sends THEN 1 ELSE 0
         /\ sentValidate' = IF sends THEN [sentValidate EXCEPT ![task] = @ + 1]
                            ELSE sentValidate
         /\ pendingVal' = IF sends /\ o = "wait_failed"
                          THEN [pendingVal EXCEPT ![task] = @ + 1]
                          ELSE pendingVal
         /\ validations' = IF sends /\ o = "receipt"
                           THEN [validations EXCEPT ![task] = @ \cup {Self}]
                           ELSE validations
    /\ pc' = "done"
    /\ readChain' = TRUE
    /\ UNCHANGED << loopVars, nodeVars, cfgVars, responses, pendingResp, sentRespond, task, status,
                    handler, steps, uploadsThis, useStorage, ownAtStart >>

\* ------------------------------------------------------------------------
\* The chain and the other oracles
\* ------------------------------------------------------------------------

\* a pending respond transaction of the worker is mined
MineRespond(t, accept) ==
    /\ pendingResp[t] > 0
    /\ RecordResponse(t, accept)
    /\ UNCHANGED << loopVars, nodeVars, cfgVars, invVars, validations, pendingVal, sentRespond,
                    sentValidate >>

\* a pending validate transaction of the worker is mined
MineValidate(t, accept) ==
    /\ pendingVal[t] > 0
    /\ RecordValidation(t, accept)
    /\ UNCHANGED << loopVars, nodeVars, cfgVars, invVars, responses, pendingResp, sentRespond,
                    sentValidate >>

\* another oracle's generation response is recorded
OtherResponds(t) ==
    /\ Other \notin responses[t]
    /\ responses' = [responses EXCEPT ![t] = @ \cup {Other}]
    /\ UNCHANGED << loopVars, nodeVars, cfgVars, invVars, validations, pendingResp, pendingVal,
                    sentRespond, sentValidate >>

\* another oracle's validation is recorded
OtherValidates(t) ==
    /\ Other \notin validations[t]
    /\ validations' = [validations EXCEPT ![t] = @ \cup {Other}]
    /\ UNCHANGED << loopVars, nodeVars, cfgVars, invVars, responses, pendingResp, pendingVal,
                    sentRespond, sentValidate >>

\* ------------------------------------------------------------------------
\* Specification of the handlers
\* ------------------------------------------------------------------------

\* put_if_large has not been called and nothing is on the network
StoreIdle ==
    /\ byte_limit = DEFAULT_BYTE_LIMIT
    /\ wallet = "Some"
    /\ value = << >>
    /\ arweave = << >>
    /\ uploads = 0
    /\ putResult = << >>
    /\ fetched = << >>
    /\ stPc = "idle"

\* try_parse_bytes has not been called
ParseIdle ==
    /\ input_bytes = << >>
    /\ parsed = [variant |-> "None", text |-> << >>]
    /\ parsePc = "idle"

\* execute_generation has not been called
ExecIdle ==
    /\ request = [variant |-> "String", history_id |-> 0]
    /\ hasNode = TRUE
    /\ nextTaskId = 1
    /\ calls = << >>
    /\ history = << >>
    /\ llm = "none"
    /\ timer = FALSE
    /\ hangs = FALSE
    /\ epc = "idle"
    /\ eresult = "none"

\* the post-processing has not been called
PostIdle ==
    /\ protocol = << "0x00", "0x00", "0x00" >>
    /\ output = << >>
    /\ post = [output |-> << >>, metadata |-> << >>, use_storage |-> FALSE]
    /\ postPc = "idle"

\* the miner has not been called
MineIdle ==
    /\ difficulty = 0
    /\ keccak = << >>
    /\ nonce = 0
    /\ minePc = "idle"

\* execute_workflow_with_timedout_retries has not been called
RetryIdle ==
    /\ duration = "default"
    /\ retries = 0
    /\ attempts = << >>
    /\ retryPc = "idle"
    /\ rresult = "none"

\* no register or request command has been called
TokenIdle ==
    /\ cmd = "register"
    /\ stake = 0
    /\ total_fee = 0
    /\ balance = 0
    /\ allowance = 0
    /\ is_registered = TRUE
    /\ approvals = << >>
    /\ tokPc = "idle"
    /\ tokResult = "none"

\* no handler is at its storage step
TailIdle ==
    /\ tailHandler = "generation"
    /\ env_wallet = "Some"
    /\ treq = [task_id |-> 1, difficulty |-> 0, requester |-> Other,
               input |-> << "x" >>]
    /\ tinput = << "x" >>
    /\ tpost = [output |-> << >>, metadata |-> << >>, use_storage |-> FALSE]
    /\ toutput = << >>
    /\ tmetadata = << >>
    /\ tuploads = << >>
    /\ preimage = << >>
    /\ tnonce = 0
    /\ tsent = << >>
    /\ tailPc = "idle"
    /\ tailResult = "none"

\* prepare_oracle has run and no model is being chosen
PrepareIdle ==
    /\ node_kinds = << "Generator", "Validator" >>
    /\ node_workflows = {"GPT4o"}
    /\ regKinds = OracleKind
    /\ wlisted = TRUE
    /\ pkinds = << >>
    /\ pmodels = {}
    /\ model_config = {}
    /\ poPc = "idle"
    /\ poResult = "none"
    /\ selRequest = [utf8 |-> TRUE, list |-> {}]
    /\ selModel = "none"
    /\ selResult = "none"

\* no chain of chat tasks is followed
ChatIdle == stored = << >>

\* none of the commands beside the serving of tasks is in progress
AuxIdle == TokenIdle /\ TailIdle /\ PrepareIdle /\ ChatIdle

\* none of the computations of the generation handler is in progress
CompRest ==
    StoreIdle /\ ParseIdle /\ ExecIdle /\ PostIdle /\ MineIdle /\ RetryIdle

\* none of the computations of the handlers is in progress
CompIdle == CompRest /\ AuxIdle

\* no computation of the scores is in progress
PureIdle ==
    /\ nGens = 0
    /\ vresults = << >>
    /\ scores = << >>
    /\ vpc = "idle"
    /\ CompIdle

\* the start of the node has succeeded
NodeReady ==
    /\ PureIdle
    /\ passed = << >>
    /\ registered = OracleKind
    /\ models = "gpt4o"
    /\ whitelisted = TRUE
    /\ prepPc = "done"
    /\ prepIdx = 0
    /\ wop = "respond"
    /\ txTimeout = "Some"
    /\ gasPrice = 0
    /\ wpc = "idle"
    /\ attempt = 0
    /\ sendLog = << >>
    /\ lost = FALSE
    /\ wresult = "none"

\* the event loop is not running
LoopIdle ==
    /\ mode = "run_oracle"
    /\ fromBlock = 0
    /\ toBlock = 0
    /\ txWait = FALSE
    /\ chainLog = << >>
    /\ loop = "start"
    /\ queue = << >>
    /\ queried = 0
    /\ queryOk = TRUE
    /\ streamNext = 0
    /\ streamErrors = 0
    /\ reconnects = FALSE
    /\ dispatched = << >>
    /\ lastOutcome = "none"
    /\ cancelAt = "none"
    /\ loopResult = "running"

Init ==
    /\ build \in Builds
    /\ kinds \in SUBSET OracleKind
    /\ responses = [t \in Tasks |-> {}]
    /\ validations = [t \in Tasks |-> {}]
    /\ pendingResp = [t \in Tasks |-> 0]
    /\ pendingVal = [t \in Tasks |-> 0]
    /\ sentRespond = [t \in Tasks |-> 0]
    /\ sentValidate = [t \in Tasks |-> 0]
    /\ pc = "idle"
    /\ task = 1
    /\ status = "None"
    /\ handler = "none"
    /\ result = "none"
    /\ steps = << >>
    /\ sentThis = 0
    /\ readChain = FALSE
    /\ uploadsThis = 0
    /\ useStorage = FALSE
    /\ guardSaw = "none"
    /\ ownAtStart = FALSE
    /\ LoopIdle
    /\ NodeReady

Next ==
    \/ \E t \in Tasks, st \in TaskStatus : HandleRequest(t, st)
    \/ \E t \in Tasks, b \in StatusBytes : HandleRequestLegacy(t, b)
    \/ GenGuard
    \/ GenRequestFetch
    \/ GenModelChoice
    \/ GenProtocolParse
    \/ GenInputResolve
    \/ GenExecute
    \/ GenPostProcess
    \/ GenOffload
    \/ GenMineNonce
    \/ GenRespondSend
    \/ GenRespondWait
    \/ ValGuard
    \/ ValAlreadyValidated
    \/ ValRequestFetch
    \/ ValResponsesFetch
    \/ ValInputResolve
    \/ ValExecute
    \/ ValSerialize
    \/ ValOffload
    \/ ValMineNonce
    \/ ValRespondSend
    \/ ValRespondWait
    \/ LegacyHandleGeneration
    \/ LegacyHandleValidation
    \/ \E t \in Tasks, a \in BOOLEAN : MineRespond(t, a)
    \/ \E t \in Tasks, a \in BOOLEAN : MineValidate(t, a)
    \/ \E t \in Tasks : OtherResponds(t)
    \/ \E t \in Tasks : OtherValidates(t)

Spec == Init /\ [][Next]_vars

\* ------------------------------------------------------------------------
\* The event loop (core/src/cli/commands/coordinator)
\* ------------------------------------------------------------------------

\* the StatusUpdate events of the model, by their status bytes: a task entering
\* PendingGeneration, and events whose statusBefore or statusAfter is no status
EventKinds ==
    { [before |-> 0, after |-> 1],
      [before |-> 4, after |-> 1],
      [before |-> 1, after |-> 4] }

\* the values of from_block: 0 is Latest
FromBlocks == 0..2

\* what handle_request returns to the loop
Outcomes == {"Receipt", "Ignored", "Err"}

\* the blocks a..b in order
RECURSIVE Range(_, _)
Range(a, b) == IF a > b THEN << >> ELSE << a >> \o Range(a + 1, b)

\* the values of --to: 0 is not supplied
ToBlocks == 0..1

\* the last block a query up to to_block returns: Latest if it is not supplied
LastBlock(to) ==
    IF to = 0 \/ to > Len(chainLog) THEN Len(chainLog) ELSE to

handlerVars == << nodeVars, cfgVars, chainVars, invVars >>

\* the coordinator emits a StatusUpdate event
EmitEvent(e) ==
    /\ Len(chainLog) < MaxEvents
    /\ chainLog' = Append(chainLog, e)
    /\ UNCHANGED << handlerVars, mode, fromBlock, toBlock, txWait, loop, queue, queried, queryOk,
                    streamNext, streamErrors, reconnects, dispatched,
                    lastOutcome, cancelAt, loopResult >>

\* wait_for_termination: a signal arrives and the token is cancelled
Cancel ==
    /\ mode = "run_oracle"
    /\ cancelAt = "none"
    /\ loop # "stopped"
    /\ cancelAt' = loop
    /\ UNCHANGED << handlerVars, mode, fromBlock, toBlock, txWait, chainLog, loop, queue, queried,
                    queryOk, streamNext, streamErrors, reconnects, dispatched,
                    lastOutcome, loopResult >>

\* run_oracle after its checks: the backfill if from_block is not Latest
Start ==
    /\ mode = "run_oracle"
    /\ prepPc = "done"
    /\ loop = "start"
    /\ loop' = IF fromBlock # 0 THEN "backfill_query" ELSE "subscribing"
    /\ UNCHANGED << handlerVars, mode, fromBlock, toBlock, txWait, chainLog, queue, queried,
                    queryOk, streamNext, streamErrors, reconnects, dispatched,
                    lastOutcome, cancelAt, loopResult >>

\* the select around handle_previous_tasks takes the cancellation branch at a
\* suspension point of the backfill (the query, a handler): return Ok(())
PrevCancelled ==
    /\ mode = "run_oracle"
    /\ loop \in {"backfill_query", "backfill_handling"}
    /\ cancelAt # "none"
    /\ loop' = "stopped"
    /\ loopResult' = "Ok"
    /\ UNCHANGED << handlerVars, mode, fromBlock, toBlock, txWait, chainLog, queue, queried,
                    queryOk, streamNext, streamErrors, reconnects, dispatched,
                    lastOutcome, cancelAt >>

\* handle_previous_tasks: get_tasks_in_range(from_block, Latest); its error
\* ends the backfill, run_oracle logs it and continues
PrevQuery ==
    /\ mode = "run_oracle"
    /\ loop = "backfill_query"
    /\ \E ok \in BOOLEAN :
         IF ok
         THEN /\ queue' = Range(fromBlock, Len(chainLog))
              /\ queried' = Len(chainLog)
              /\ loop' = "backfill"
              /\ UNCHANGED queryOk
         ELSE /\ queryOk' = FALSE
              /\ loop' = "subscribing"
              /\ UNCHANGED << queue, queried >>
    /\ UNCHANGED << handlerVars, mode, fromBlock, toBlock, txWait, chainLog, streamNext,
                    streamErrors, reconnects, dispatched, lastOutcome, cancelAt,
                    loopResult >>

\* the backfill iterating the events of the query from the last to the first
PrevNext_Mut ==
    /\ mode = "run_oracle"
    /\ loop = "backfill"
    /\ queue # << >>
    /\ LET last == queue[Len(queue)]
           e == chainLog[last]
       IN
       IF TryFromStatus(e.before) = "Invalid" \/ TryFromStatus(e.after) = "Invalid"
       THEN /\ queue' = << >>
            /\ loop' = "subscribing"
            /\ UNCHANGED dispatched
       ELSE /\ queue' = SubSeq(queue, 1, Len(queue) - 1)
            /\ dispatched' = Append(dispatched, last)
            /\ loop' = "backfill_handling"
    /\ UNCHANGED << handlerVars, mode, fromBlock, toBlock, txWait, chainLog, queried, queryOk,
                    streamNext, streamErrors, reconnects, lastOutcome, cancelAt,
                    loopResult >>

\* handle_previous_tasks, one iteration: TaskStatus::try_from(statusBefore)?
\* and try_from(statusAfter)? return the error from the whole backfill, else
\* the event goes to handle_request
PrevNext ==
    /\ mode = "run_oracle"
    /\ loop = "backfill"
    /\ queue # << >>
    /\ LET e == chainLog[Head(queue)] IN
       IF TryFromStatus(e.before) = "Invalid" \/ TryFromStatus(e.after) = "Invalid"
       THEN /\ queue' = << >>
            /\ loop' = "subscribing"
            /\ UNCHANGED dispatched
       ELSE /\ queue' = Tail(queue)
            /\ dispatched' = Append(dispatched, Head(queue))
            /\ loop' = "backfill_handling"
    /\ UNCHANGED << handlerVars, mode, fromBlock, toBlock, txWait, chainLog, queried, queryOk,
                    streamNext, streamErrors, reconnects, lastOutcome, cancelAt,
                    loopResult >>

\* the handler in progress calls respond_generation / respond_validation:
\* send_with_gas_hikes has sent the transaction and wait_for_tx awaits the
\* receipt
HandlerSends ==
    /\ loop \in {"backfill_handling", "live_handling"}
    /\ ~txWait
    /\ txWait' = TRUE
    /\ UNCHANGED << handlerVars, mode, fromBlock, toBlock, chainLog, loop, queue,
                    queried, queryOk, streamNext, streamErrors, reconnects,
                    dispatched, lastOutcome, cancelAt, loopResult >>

\* handle_request returns o: Ok(Some(receipt)) only from the receipt wait,
\* Ok(None) only before any transaction, an error from either
HandlerReturns(o) ==
    /\ o = "Receipt" => txWait
    /\ o = "Ignored" => ~txWait
    /\ txWait' = FALSE

\* handle_previous_tasks: handle_request returns; every outcome is logged
PrevHandled(o) ==
    /\ mode = "run_oracle"
    /\ loop = "backfill_handling"
    /\ HandlerReturns(o)
    /\ lastOutcome' = o
    /\ loop' = "backfill"
    /\ UNCHANGED << handlerVars, mode, fromBlock, toBlock, chainLog, queue, queried,
                    queryOk, streamNext, streamErrors, reconnects, dispatched,
                    cancelAt, loopResult >>

\* handle_previous_tasks returns Ok(()) after the last event
PrevDone ==
    /\ mode = "run_oracle"
    /\ loop = "backfill"
    /\ queue = << >>
    /\ loop' = "subscribing"
    /\ UNCHANGED << handlerVars, mode, fromBlock, toBlock, txWait, chainLog, queue, queried,
                    queryOk, streamNext, streamErrors, reconnects, dispatched,
                    lastOutcome, cancelAt, loopResult >>

\* subscribe_to_tasks: StatusUpdate_filter().watch() yields the events logged
\* after it is installed; its error is returned from run_oracle
Subscribe ==
    /\ mode = "run_oracle"
    /\ loop = "subscribing"
    /\ \E ok \in BOOLEAN :
         IF ok
         THEN /\ streamNext' = Len(chainLog) + 1
              /\ loop' = "waiting"
              /\ UNCHANGED loopResult
         ELSE /\ loop' = "stopped"
              /\ loopResult' = "Err"
              /\ UNCHANGED streamNext
    /\ UNCHANGED << handlerVars, mode, fromBlock, toBlock, txWait, chainLog, queue, queried,
                    queryOk, streamErrors, reconnects, dispatched, lastOutcome,
                    cancelAt >>

\* the select of the event loop takes the cancellation branch: return Ok(())
LiveCancelled ==
    /\ mode = "run_oracle"
    /\ loop = "waiting"
    /\ cancelAt # "none"
    /\ loop' = "stopped"
    /\ loopResult' = "Ok"
    /\ UNCHANGED << handlerVars, mode, fromBlock, toBlock, txWait, chainLog, queue, queried,
                    queryOk, streamNext, streamErrors, reconnects, dispatched,
                    lastOutcome, cancelAt >>

\* Some(Ok((event, log))): handle_event_log parses statusAfter (logs and
\* returns if it is no status) and passes the event to handle_request
LiveEvent ==
    /\ mode = "run_oracle"
    /\ loop = "waiting"
    /\ streamNext <= Len(chainLog)
    /\ streamNext' = streamNext + 1
    /\ IF TryFromStatus(chainLog[streamNext].after) = "Invalid"
       THEN UNCHANGED << loop, dispatched >>
       ELSE /\ dispatched' = Append(dispatched, streamNext)
            /\ loop' = "live_handling"
    /\ UNCHANGED << handlerVars, mode, fromBlock, toBlock, txWait, chainLog, queue, queried,
                    queryOk, streamErrors, reconnects, lastOutcome, cancelAt,
                    loopResult >>

\* handle_event_log returning the handler's error from the loop
LiveHandled_Mut(o) ==
    /\ mode = "run_oracle"
    /\ loop = "live_handling"
    /\ HandlerReturns(o)
    /\ lastOutcome' = o
    /\ loop' = IF o = "Err" THEN "stopped" ELSE "waiting"
    /\ loopResult' = IF o = "Err" THEN "Err" ELSE loopResult
    /\ UNCHANGED << handlerVars, mode, fromBlock, toBlock, chainLog, queue, queried,
                    queryOk, streamNext, streamErrors, reconnects, dispatched,
                    cancelAt >>

\* handle_event_log: handle_request returns; every outcome is logged
LiveHandled(o) ==
    /\ mode = "run_oracle"
    /\ loop = "live_handling"
    /\ HandlerReturns(o)
    /\ lastOutcome' = o
    /\ loop' = "waiting"
    /\ UNCHANGED << handlerVars, mode, fromBlock, toBlock, chainLog, queue, queried,
                    queryOk, streamNext, streamErrors, reconnects, dispatched,
                    cancelAt, loopResult >>

\* Some(Err(e)): the error item is logged
StreamError ==
    /\ mode = "run_oracle"
    /\ loop = "waiting"
    /\ streamErrors < MaxStreamErrors
    /\ streamErrors' = streamErrors + 1
    /\ UNCHANGED << handlerVars, mode, fromBlock, toBlock, txWait, chainLog, loop, queue, queried,
                    queryOk, streamNext, reconnects, dispatched, lastOutcome,
                    cancelAt, loopResult >>

\* None: the stream ended and run_oracle returns Ok(())
StreamEnd_Mut ==
    /\ mode = "run_oracle"
    /\ loop = "waiting"
    /\ loop' = "stopped"
    /\ loopResult' = "Ok"
    /\ streamNext' = 0
    /\ reconnects' = TRUE
    /\ UNCHANGED << handlerVars, mode, fromBlock, toBlock, txWait, chainLog, queue,
                    queried, queryOk, streamErrors, dispatched, lastOutcome,
                    cancelAt >>

\* None: the stream ended; sleep 5 s, then break to subscribe again
StreamEnd ==
    /\ mode = "run_oracle"
    /\ loop = "waiting"
    /\ loop' = "sleeping"
    /\ streamNext' = 0
    /\ reconnects' = TRUE
    /\ UNCHANGED << handlerVars, mode, fromBlock, toBlock, txWait, chainLog, queue, queried,
                    queryOk, streamErrors, dispatched, lastOutcome, cancelAt,
                    loopResult >>

\* the sleep is over
SleepDone ==
    /\ mode = "run_oracle"
    /\ loop = "sleeping"
    /\ loop' = "subscribing"
    /\ UNCHANGED << handlerVars, mode, fromBlock, toBlock, txWait, chainLog, queue, queried,
                    queryOk, streamNext, streamErrors, reconnects, dispatched,
                    lastOutcome, cancelAt, loopResult >>

\* process_tasks_within_range: get_tasks_in_range(from_block, to_block)?
RangeQuery ==
    /\ mode = "range"
    /\ loop = "start"
    /\ \E ok \in BOOLEAN :
         IF ok
         THEN /\ queue' = Range(fromBlock, LastBlock(toBlock))
              /\ queried' = LastBlock(toBlock)
              /\ loop' = "backfill"
              /\ UNCHANGED << queryOk, loopResult >>
         ELSE /\ queryOk' = FALSE
              /\ loop' = "stopped"
              /\ loopResult' = "Err"
              /\ UNCHANGED << queue, queried >>
    /\ UNCHANGED << handlerVars, mode, fromBlock, toBlock, txWait, chainLog, streamNext,
                    streamErrors, reconnects, dispatched, lastOutcome, cancelAt >>

\* process_task_by_event: a statusAfter that is no status is logged and the
\* event skipped, else the event goes to handle_request
RangeNext ==
    /\ mode = "range"
    /\ loop = "backfill"
    /\ queue # << >>
    /\ queue' = Tail(queue)
    /\ IF TryFromStatus(chainLog[Head(queue)].after) = "Invalid"
       THEN UNCHANGED << loop, dispatched >>
       ELSE /\ dispatched' = Append(dispatched, Head(queue))
            /\ loop' = "backfill_handling"
    /\ UNCHANGED << handlerVars, mode, fromBlock, toBlock, txWait, chainLog, queried, queryOk,
                    streamNext, streamErrors, reconnects, lastOutcome, cancelAt,
                    loopResult >>

\* process_task_by_event: handle_request returns; an error is logged
RangeHandled(o) ==
    /\ mode = "range"
    /\ loop = "backfill_handling"
    /\ HandlerReturns(o)
    /\ lastOutcome' = o
    /\ loop' = "backfill"
    /\ UNCHANGED << handlerVars, mode, fromBlock, toBlock, chainLog, queue, queried,
                    queryOk, streamNext, streamErrors, reconnects, dispatched,
                    cancelAt, loopResult >>

\* process_tasks_within_range returns Ok(()) after the last event
RangeDone ==
    /\ mode = "range"
    /\ loop = "backfill"
    /\ queue = << >>
    /\ loop' = "stopped"
    /\ loopResult' = "Ok"
    /\ UNCHANGED << handlerVars, mode, fromBlock, toBlock, txWait, chainLog, queue, queried,
                    queryOk, streamNext, streamErrors, reconnects, dispatched,
                    lastOutcome, cancelAt >>

\* no handler invocation is modelled in the loop's specification
HandlersIdle ==
    /\ build = "core"
    /\ kinds = OracleKind
    /\ responses = [t \in Tasks |-> {}]
    /\ validations = [t \in Tasks |-> {}]
    /\ pendingResp = [t \in Tasks |-> 0]
    /\ pendingVal = [t \in Tasks |-> 0]
    /\ sentRespond = [t \in Tasks |-> 0]
    /\ sentValidate = [t \in Tasks |-> 0]
    /\ pc = "idle"
    /\ task = 1
    /\ status = "None"
    /\ handler = "none"
    /\ result = "none"
    /\ steps = << >>
    /\ sentThis = 0
    /\ readChain = FALSE
    /\ uploadsThis = 0
    /\ useStorage = FALSE
    /\ guardSaw = "none"
    /\ ownAtStart = FALSE

LoopInit ==
    /\ HandlersIdle
    /\ NodeReady
    /\ mode \in {"run_oracle", "range"}
    /\ fromBlock \in FromBlocks
    /\ mode = "range" => fromBlock # 0
    /\ toBlock \in ToBlocks
    /\ toBlock # 0 => (fromBlock # 0 /\ fromBlock <= toBlock)
    /\ txWait = FALSE
    /\ chainLog = << >>
    /\ loop = "start"
    /\ queue = << >>
    /\ queried = 0
    /\ queryOk = TRUE
    /\ streamNext = 0
    /\ streamErrors = 0
    /\ reconnects = FALSE
    /\ dispatched = << >>
    /\ lastOutcome = "none"
    /\ cancelAt = "none"
    /\ loopResult = "running"

LoopNext ==
    \/ \E e \in EventKinds : EmitEvent(e)
    \/ Cancel
    \/ Start
    \/ PrevCancelled
    \/ PrevQuery
    \/ PrevNext
    \/ HandlerSends
    \/ \E o \in Outcomes : PrevHandled(o)
    \/ PrevDone
    \/ Subscribe
    \/ LiveCancelled
    \/ LiveEvent
    \/ \E o \in Outcomes : LiveHandled(o)
    \/ StreamError
    \/ StreamEnd
    \/ SleepDone
    \/ RangeQuery
    \/ RangeNext
    \/ \E o \in Outcomes : RangeHandled(o)
    \/ RangeDone

SpecLoop == LoopInit /\ [][LoopNext]_vars

\* the sleep of 5 s ends and the call of subscribe_to_tasks returns
SpecLoopFair == SpecLoop /\ WF_vars(SleepDone) /\ WF_vars(Subscribe)

\* ------------------------------------------------------------------------
\* The start of the node (run_oracle's checks, prepare_oracle)
\* ------------------------------------------------------------------------

\* the kinds arguments of the model: the Vecs of at most MaxKinds kinds
KindLists == UNION { [1..n -> OracleKind] : n \in 0..MaxKinds }

\* the models arguments of the model: no model, models without GPT4o, GPT4o
ModelArgs == {"none", "other", "gpt4o"}

\* the elements of a Vec
Elems(sq) == { sq[i] : i \in 1..Len(sq) }

\* the kinds whose registration is read, in order: Generator and Validator
\* if no kinds are passed, else the kinds passed
ChecksOf(p) == IF p = << >> THEN << "Generator", "Validator" >> ELSE p

\* the variables of the loop other than its position and its result
loopRest ==
    << mode, fromBlock, toBlock, txWait, chainLog, queue, queried, queryOk,
       streamNext, streamErrors, reconnects, dispatched, lastOutcome, cancelAt >>

\* return Err(..)?: run_oracle returns the error
PrepFail ==
    /\ prepPc' = "failed"
    /\ loop' = "stopped"
    /\ loopResult' = "Err"

\* the start goes on to its next check
PrepGo(p) ==
    /\ prepPc' = p
    /\ UNCHANGED << loop, loopResult >>

\* is_registered(kind).await? for the next kind: with no kinds passed a
\* registered kind is pushed, with kinds passed a kind not registered is an
\* error
PrepCheckKind ==
    /\ prepPc = "kinds"
    /\ prepIdx <= Len(ChecksOf(passed))
    /\ LET k == ChecksOf(passed)[prepIdx] IN
       \E ok \in BOOLEAN :
         IF ~ok
         THEN PrepFail /\ UNCHANGED << kinds, prepIdx >>
         ELSE IF passed = << >>
         THEN /\ kinds' = IF k \in registered THEN kinds \cup {k} ELSE kinds
              /\ prepIdx' = prepIdx + 1
              /\ PrepGo("kinds")
         ELSE IF k \notin registered
         THEN PrepFail /\ UNCHANGED << kinds, prepIdx >>
         ELSE /\ prepIdx' = prepIdx + 1
              /\ PrepGo("kinds")
              /\ UNCHANGED kinds
    /\ UNCHANGED << writeVars, pureVars, passed, registered, models, whitelisted, build, chainVars,
                    invVars, loopRest >>

\* the loop over the kinds is over: with no kinds passed and none registered
\* the start fails
PrepKindsEnd_Mut ==
    /\ prepPc = "kinds"
    /\ prepIdx > Len(ChecksOf(passed))
    /\ PrepGo("models")
    /\ UNCHANGED << writeVars, pureVars, passed, registered, models, whitelisted, prepIdx, cfgVars,
                    chainVars, invVars, loopRest >>

\* the loop over the kinds is over: with no kinds passed and none registered
\* the start fails
PrepKindsEnd ==
    /\ prepPc = "kinds"
    /\ prepIdx > Len(ChecksOf(passed))
    /\ IF passed = << >> /\ kinds = {} THEN PrepFail ELSE PrepGo("models")
    /\ UNCHANGED << writeVars, pureVars, passed, registered, models, whitelisted, prepIdx, cfgVars,
                    chainVars, invVars, loopRest >>

\* DriaWorkflowsConfig::new(models): no model is an error
PrepModels ==
    /\ prepPc = "models"
    /\ IF models = "none" THEN PrepFail ELSE PrepGo("services")
    /\ UNCHANGED << writeVars, pureVars, passed, registered, models, whitelisted, prepIdx, cfgVars,
                    chainVars, invVars, loopRest >>

\* model_config.check_services().await?
PrepServices ==
    /\ prepPc = "services"
    /\ \E ok \in BOOLEAN : IF ok THEN PrepGo("validator") ELSE PrepFail
    /\ UNCHANGED << writeVars, pureVars, passed, registered, models, whitelisted, prepIdx, cfgVars,
                    chainVars, invVars, loopRest >>

\* the checks of a validator: the GPT4o model and the whitelist
PrepValidator ==
    /\ prepPc = "validator"
    /\ IF "Validator" \notin kinds THEN PrepGo("done")
       ELSE IF models # "gpt4o" THEN PrepFail
       ELSE \E ok \in BOOLEAN :
              IF ok /\ whitelisted THEN PrepGo("done") ELSE PrepFail
    /\ UNCHANGED << writeVars, pureVars, passed, registered, models, whitelisted, prepIdx, cfgVars,
                    chainVars, invVars, loopRest >>

\* no transaction of the worker and no response is on the contract
ChainEmpty ==
    /\ responses = [t \in Tasks |-> {}]
    /\ validations = [t \in Tasks |-> {}]
    /\ pendingResp = [t \in Tasks |-> 0]
    /\ pendingVal = [t \in Tasks |-> 0]
    /\ sentRespond = [t \in Tasks |-> 0]
    /\ sentValidate = [t \in Tasks |-> 0]

\* no handler has been invoked
InvocationIdle ==
    /\ pc = "idle"
    /\ task = 1
    /\ status = "None"
    /\ handler = "none"
    /\ result = "none"
    /\ steps = << >>
    /\ sentThis = 0
    /\ readChain = FALSE
    /\ uploadsThis = 0
    /\ useStorage = FALSE
    /\ guardSaw = "none"
    /\ ownAtStart = FALSE

\* run_oracle is called with its arguments
PrepInit ==
    /\ passed \in KindLists
    /\ registered \in SUBSET OracleKind
    /\ models \in ModelArgs
    /\ whitelisted \in BOOLEAN
    /\ prepPc = "kinds"
    /\ prepIdx = 1
    /\ PureIdle
    /\ wop = "respond"
    /\ txTimeout = "Some"
    /\ gasPrice = 0
    /\ wpc = "idle"
    /\ attempt = 0
    /\ sendLog = << >>
    /\ lost = FALSE
    /\ wresult = "none"
    /\ build = "core"
    /\ kinds = Elems(passed)
    /\ ChainEmpty
    /\ InvocationIdle
    /\ LoopIdle

PrepNext ==
    \/ PrepCheckKind
    \/ PrepKindsEnd
    \/ PrepModels
    \/ PrepServices
    \/ PrepValidator
    \/ Start

SpecStart == PrepInit /\ [][PrepNext]_vars

\* ------------------------------------------------------------------------
\* The write operations (core/src/node: registry.rs, token.rs, coordinator.rs,
\* core.rs)
\* ------------------------------------------------------------------------

\* the state-changing contract calls of the node
WriteOps ==
    {"register", "unregister", "approve", "transfer_from", "request", "respond",
     "validate"}

\* how the operation sends its transaction: register_kind and unregister_kind
\* call req.send(), the others send_with_gas_hikes(req)
SendPath(op) ==
    IF op \in {"register", "unregister"} THEN "direct" ELSE "ladder"

\* const GAS_PRICE_HIKES: [u128; 4]
GAS_PRICE_HIKES == << 0, 12, 24, 36 >>

\* the gas prices the provider reports in the model
GasPrices == {50, 200}

\* initial_gas_price + (initial_gas_price / 100) * increase_percentage
HikedPrice(initial, pct) == initial + (initial \div 100) * pct

\* what a send returns: the pending transaction, an RPC error response whose
\* message contains "underpriced", another RPC error response, another error
SendOutcomes == {"ok", "underpriced", "rpc_error", "other"}

\* the values of config.tx_timeout: DriaOracleConfig::new sets None,
\* with_tx_timeout sets Some
TxTimeouts == {"None", "Some"}

\* the variables a step of a write operation leaves alone
writeFrame == << prepVars, pureVars, cfgVars, chainVars, invVars, loopVars, wop, txTimeout >>

\* the operation returns r
WriteReturn(r) ==
    /\ wpc' = "done"
    /\ wresult' = r

\* a send is made and recorded
Sends(path, pct, o) ==
    sendLog' = Append(sendLog, [via |-> path, hike |-> pct,
                                price |-> HikedPrice(gasPrice, pct),
                                outcome |-> o])

\* register_kind, unregister_kind: req.send().await.map_err(
\* contract_error_report)?, then wait_for_tx
DirectSend ==
    /\ wpc = "start"
    /\ SendPath(wop) = "direct"
    /\ \E o \in SendOutcomes, l \in BOOLEAN :
         /\ Sends("direct", 0, o)
         /\ IF o = "ok"
            THEN wpc' = "wait" /\ lost' = l /\ UNCHANGED wresult
            ELSE WriteReturn("ErrDecoded") /\ UNCHANGED lost
    /\ UNCHANGED << writeFrame, gasPrice, attempt >>

\* send_with_gas_hikes: self.provider.get_gas_price().await?
LadderGasPrice ==
    /\ wpc = "start"
    /\ SendPath(wop) = "ladder"
    /\ \E ok \in BOOLEAN :
         IF ok
         THEN /\ gasPrice' \in GasPrices
              /\ wpc' = "send"
              /\ attempt' = 1
              /\ UNCHANGED wresult
         ELSE /\ WriteReturn("Err")
              /\ UNCHANGED << gasPrice, attempt >>
    /\ UNCHANGED << writeFrame, sendLog, lost >>

\* send_with_gas_hikes, the body of the for loop: Ok(tx) is returned to the
\* caller, which waits for the receipt; an underpriced error response sleeps
\* and continues; the other errors are returned decoded
LadderSend_Mut ==
    /\ wpc = "send"
    /\ attempt <= Len(GAS_PRICE_HIKES)
    /\ \E o \in SendOutcomes, l \in BOOLEAN :
         /\ Sends("ladder", GAS_PRICE_HIKES[attempt], o)
         /\ CASE o = "ok" ->
                   wpc' = "wait" /\ lost' = l /\ UNCHANGED wresult
              [] o \in {"underpriced", "rpc_error"} ->
                   wpc' = "sleep" /\ UNCHANGED << lost, wresult >>
              [] OTHER ->
                   WriteReturn("ErrDecoded") /\ UNCHANGED lost
    /\ UNCHANGED << writeFrame, gasPrice, attempt >>

\* send_with_gas_hikes, the body of the for loop: Ok(tx) is returned to the
\* caller, which waits for the receipt; an underpriced error response sleeps
\* and continues; the other errors are returned decoded
LadderSend ==
    /\ wpc = "send"
    /\ attempt <= Len(GAS_PRICE_HIKES)
    /\ \E o \in SendOutcomes, l \in BOOLEAN :
         /\ Sends("ladder", GAS_PRICE_HIKES[attempt], o)
         /\ CASE o = "ok" ->
                   wpc' = "wait" /\ lost' = l /\ UNCHANGED wresult
              [] o = "underpriced" ->
                   wpc' = "sleep" /\ UNCHANGED << lost, wresult >>
              [] OTHER ->
                   WriteReturn("ErrDecoded") /\ UNCHANGED lost
    /\ UNCHANGED << writeFrame, gasPrice, attempt >>

\* the sleep of 300 ms is over and the for loop goes on without a bound on
\* the attempts
LadderContinue_Mut ==
    /\ wpc = "sleep"
    /\ attempt' = IF attempt < Len(GAS_PRICE_HIKES) THEN attempt + 1 ELSE attempt
    /\ wpc' = "send"
    /\ UNCHANGED << writeFrame, gasPrice, sendLog, lost, wresult >>

\* the sleep of 300 ms is over: continue with the next hike, or, after the
\* last hike, Err("Failed all attempts send tx due to underpriced gas.")
LadderContinue ==
    /\ wpc = "sleep"
    /\ attempt' = attempt + 1
    /\ IF attempt < Len(GAS_PRICE_HIKES)
       THEN wpc' = "send" /\ UNCHANGED wresult
       ELSE WriteReturn("ErrExhausted")
    /\ UNCHANGED << writeFrame, gasPrice, sendLog, lost >>

\* wait_for_tx: get_receipt returns the receipt
WaitReceipt ==
    /\ wpc = "wait"
    /\ ~lost
    /\ WriteReturn("Receipt")
    /\ UNCHANGED << writeFrame, gasPrice, attempt, sendLog, lost >>

\* wait_for_tx: with_timeout(Some(d)) makes get_receipt fail after d
WaitTimeout ==
    /\ wpc = "wait"
    /\ txTimeout = "Some"
    /\ WriteReturn("ErrTimeout")
    /\ UNCHANGED << writeFrame, gasPrice, attempt, sendLog, lost >>

\* wait_for_tx: get_receipt fails with a transport error
WaitError ==
    /\ wpc = "wait"
    /\ WriteReturn("Err")
    /\ UNCHANGED << writeFrame, gasPrice, attempt, sendLog, lost >>

\* a write operation is called on a node built with some configuration
WriteInit ==
    /\ PureIdle
    /\ wop \in WriteOps
    /\ txTimeout \in TxTimeouts
    /\ gasPrice = 0
    /\ wpc = "start"
    /\ attempt = 0
    /\ sendLog = << >>
    /\ lost = FALSE
    /\ wresult = "none"
    /\ passed = << >>
    /\ registered = OracleKind
    /\ models = "gpt4o"
    /\ whitelisted = TRUE
    /\ prepPc = "done"
    /\ prepIdx = 0
    /\ build = "core"
    /\ kinds = OracleKind
    /\ ChainEmpty
    /\ InvocationIdle
    /\ LoopIdle

WriteNext ==
    \/ DirectSend
    \/ LadderGasPrice
    \/ LadderSend
    \/ LadderContinue
    \/ WaitReceipt
    \/ WaitTimeout
    \/ WaitError

SpecWrite == WriteInit /\ [][WriteNext]_vars

\* the steps of the node itself are taken; the timeout fires and a
\* transaction that is not lost is mined
SpecWriteFair ==
    /\ SpecWrite
    /\ WF_vars(DirectSend) /\ WF_vars(LadderGasPrice) /\ WF_vars(LadderSend)
    /\ WF_vars(LadderContinue) /\ WF_vars(WaitReceipt) /\ WF_vars(WaitTimeout)

\* ------------------------------------------------------------------------
\* The scores of handle_validation (validation/handler.rs, validation/execute.rs)
\* ------------------------------------------------------------------------

\* the values of ValidationResult::final_score (a u8) in the model: every
\* row of the table, and values under and over it up to the largest u8
FinalScores == {0, 1, 2, 3, 4, 5, 6, 255}

\* the lists of results the validation model may return
ResultLists == UNION { [1..n -> FinalScores] : n \in 0..MaxResults }

\* self.final_score.clamp(1, 5)
Clamp(x) == IF x < 1 THEN 1 ELSE IF x > 5 THEN 5 ELSE x

\* final_score_as_solidity_type with the rows of 3 and 4 exchanged
final_score_as_solidity_type_Mut(fs) ==
    CASE Clamp(fs) = 1 -> 1
      [] Clamp(fs) = 2 -> 64
      [] Clamp(fs) = 3 -> 127
      [] Clamp(fs) = 4 -> 85
      [] Clamp(fs) = 5 -> 255

\* ValidationResult::final_score_as_solidity_type
final_score_as_solidity_type(fs) ==
    CASE Clamp(fs) = 1 -> 1
      [] Clamp(fs) = 2 -> 64
      [] Clamp(fs) = 3 -> 85
      [] Clamp(fs) = 4 -> 127
      [] Clamp(fs) = 5 -> 255

\* validate_generations and the map over its results: a result string that
\* does not parse is an error, else every result is projected to its score
ComputeScores ==
    /\ vpc = "execute"
    /\ \E ok \in BOOLEAN :
         IF ok
         THEN /\ scores' = [i \in 1..Len(vresults) |->
                              final_score_as_solidity_type(vresults[i])]
              /\ vpc' = "done"
         ELSE /\ vpc' = "failed"
              /\ UNCHANGED scores
    /\ UNCHANGED << prepVars, writeVars, cfgVars, chainVars, invVars, loopVars,
                    compVars, nGens, vresults >>

\* handle_validation has fetched the generation responses of the task and
\* the model is about to return its results
ScoresInit ==
    /\ nGens \in 0..MaxGens
    /\ vresults \in ResultLists
    /\ scores = << >>
    /\ vpc = "execute"
    /\ CompIdle
    /\ passed = << >>
    /\ registered = OracleKind
    /\ models = "gpt4o"
    /\ whitelisted = TRUE
    /\ prepPc = "done"
    /\ prepIdx = 0
    /\ wop = "validate"
    /\ txTimeout = "Some"
    /\ gasPrice = 0
    /\ wpc = "idle"
    /\ attempt = 0
    /\ sendLog = << >>
    /\ lost = FALSE
    /\ wresult = "none"
    /\ build = "core"
    /\ kinds = OracleKind
    /\ ChainEmpty
    /\ InvocationIdle
    /\ LoopIdle

ScoresNext == ComputeScores

SpecScores == ScoresInit /\ [][ScoresNext]_vars

\* ------------------------------------------------------------------------
\* The blob store (storage/src/arweave.rs)
\* ------------------------------------------------------------------------

\* the bytes of a value: a brace, so that a value may begin like a JSON
\* object, and one other byte
ByteChars == {"{", "x"}

\* Bytes of at most n bytes
BytesUpTo(n) == UNION { [1..k -> ByteChars] : k \in 0..n }

\* the values handed to put_if_large
Values == BytesUpTo(MaxLen)

\* self.byte_limit: the default or what with_upload_byte_limit set
ByteLimits == 0..MaxLen

\* the transaction ids the bundler gives out (res.id)
TxIds == {"tx1", "tx2"}

\* struct ArweaveKey { arweave: String }
ArweaveKey(id) == [arweave |-> id]

\* serde_json::to_string(&key): the object with its one field, token by token
KeyToString(key) == << "{", "\"arweave\"", ":", key.arweave, "}" >>

\* is_key: serde_json::from_str::<ArweaveKey>(key).ok(), the Option as a
\* sequence: << key >> for Some(key), << >> for None
is_key(str) ==
    IF /\ Len(str) = 5
       /\ str[1] = "{"
       /\ str[2] = "\"arweave\""
       /\ str[3] = ":"
       /\ str[4] \notin {"{", "}", ":", "\"arweave\""}
       /\ str[5] = "}"
    THEN << ArweaveKey(str[4]) >>
    ELSE << >>

storeFrame ==
    << prepVars, writeVars, cfgVars, chainVars, invVars, loopVars,
       nGens, vresults, scores, vpc, parseVars, execVars, postVars, mineVars, retryVars, auxVars >>

\* put_if_large, the else branch: the value is returned as it is
PutSmall ==
    /\ stPc = "call"
    /\ ~ (Len(value) > byte_limit)
    /\ putResult' = value
    /\ stPc' = "returned"
    /\ UNCHANGED << storeFrame, byte_limit, wallet, value, arweave, uploads,
                    fetched >>

\* put_if_large over the limit with put rejecting it mistakenly under it
PutLarge_Mut ==
    /\ stPc = "call"
    /\ Len(value) >= byte_limit
    /\ wallet = "Some"
    /\ \E id \in TxIds \ DOMAIN arweave :
         /\ arweave' = [k \in DOMAIN arweave \cup {id} |->
                          IF k = id THEN value ELSE arweave[k]]
         /\ putResult' = KeyToString(ArweaveKey(id))
    /\ uploads' = uploads + 1
    /\ stPc' = "returned"
    /\ UNCHANGED << storeFrame, byte_limit, wallet, value, fetched >>

\* put_if_large over the limit: put uploads the value, the bundler answers
\* with a new id and the serialized key is returned
PutLarge ==
    /\ stPc = "call"
    /\ Len(value) > byte_limit
    /\ wallet = "Some"
    /\ \E id \in TxIds \ DOMAIN arweave :
         /\ arweave' = [k \in DOMAIN arweave \cup {id} |->
                          IF k = id THEN value ELSE arweave[k]]
         /\ putResult' = KeyToString(ArweaveKey(id))
    /\ uploads' = uploads + 1
    /\ stPc' = "returned"
    /\ UNCHANGED << storeFrame, byte_limit, wallet, value, fetched >>

\* put_if_large over the limit with put failing: no wallet, or an error of
\* the bundler before the transaction is accepted
PutFails ==
    /\ stPc = "call"
    /\ Len(value) > byte_limit
    /\ stPc' = "failed"
    /\ UNCHANGED << storeFrame, byte_limit, wallet, value, arweave, uploads,
                    putResult, fetched >>

\* get of the key a reader finds in the returned bytes
GetKey ==
    /\ stPc = "returned"
    /\ is_key(putResult) # << >>
    /\ \E ok \in BOOLEAN :
         IF ok /\ is_key(putResult)[1].arweave \in DOMAIN arweave
         THEN /\ fetched' = arweave[is_key(putResult)[1].arweave]
              /\ stPc' = "fetched"
         ELSE /\ stPc' = "fetchFailed"
              /\ UNCHANGED fetched
    /\ UNCHANGED << storeFrame, byte_limit, wallet, value, arweave, uploads,
                    putResult >>

\* the scores, the start, the writes, the chain, the handlers and the loop
\* are at rest
NodeRest ==
    /\ nGens = 0
    /\ vresults = << >>
    /\ scores = << >>
    /\ vpc = "idle"
    /\ passed = << >>
    /\ registered = OracleKind
    /\ models = "gpt4o"
    /\ whitelisted = TRUE
    /\ prepPc = "done"
    /\ prepIdx = 0
    /\ wop = "respond"
    /\ txTimeout = "Some"
    /\ gasPrice = 0
    /\ wpc = "idle"
    /\ attempt = 0
    /\ sendLog = << >>
    /\ lost = FALSE
    /\ wresult = "none"
    /\ build = "core"
    /\ kinds = OracleKind
    /\ ChainEmpty
    /\ InvocationIdle
    /\ LoopIdle

\* everything but the computations of the generation handler is at rest
StoreRest == NodeRest /\ AuxIdle

\* put_if_large is called on a storage with some limit
StoreInit ==
    /\ byte_limit \in ByteLimits
    /\ wallet \in {"None", "Some"}
    /\ value \in Values
    /\ arweave = << >>
    /\ uploads = 0
    /\ putResult = << >>
    /\ fetched = << >>
    /\ stPc = "call"
    /\ ParseIdle
    /\ ExecIdle
    /\ PostIdle
    /\ MineIdle
    /\ RetryIdle
    /\ StoreRest

StoreNext ==
    \/ PutSmall
    \/ PutLarge
    \/ PutFails
    \/ GetKey

SpecStore == StoreInit /\ [][StoreNext]_vars

\* ------------------------------------------------------------------------
\* The input resolver (src/compute/workflows/input.rs, core/src/compute/utils.rs)
\* ------------------------------------------------------------------------

\* a byte that is not UTF-8
BadByte == "0xff"

\* the members a JSON object of the model may have: those of a chat-history
\* request and those a workflow document must have
ChatFields == {"\"history_id\"", "\"content\""}
WorkflowFields == {"\"tasks\"", "\"steps\""}
Fields == ChatFields \cup WorkflowFields

RECURSIVE MembersText(_)
\* the members of a set, as text, in some fixed order
MembersText(F) ==
    IF F = {} THEN << >>
    ELSE LET f == CHOOSE x \in F : TRUE IN << f >> \o MembersText(F \ {f})

\* the text of the JSON object with the members F
ObjectText(F) == << "{" >> \o MembersText(F) \o << "}" >>

\* the texts a request input or a downloaded blob may be: plain strings,
\* JSON objects, blob keys, and bytes that are not UTF-8
Texts ==
    Values \cup { ObjectText(F) : F \in SUBSET Fields }
           \cup { KeyToString(ArweaveKey(id)) : id \in TxIds }
           \cup { << "x", BadByte >> }

\* the text is a JSON object
IsObject(str) == Len(str) >= 2 /\ str[1] = "{" /\ str[Len(str)] = "}"

\* the members of the JSON object
Members(str) == { str[i] : i \in 2..(Len(str) - 1) }

\* serde_json::from_str::<ChatHistoryRequest>(&input_string).is_ok()
ParsesChat(str) ==
    IsObject(str) /\ ChatFields \subseteq Members(str) /\ Members(str) \subseteq Fields

\* serde_json::from_str::<Workflow>(&input_string).is_ok()
ParsesWorkflow(str) ==
    IsObject(str) /\ WorkflowFields \subseteq Members(str) /\ Members(str) \subseteq Fields

\* bytes_to_string: the Option as a sequence, << >> for bytes that are not UTF-8
bytes_to_string(b) ==
    IF \E i \in 1..Len(b) : b[i] = BadByte THEN << >> ELSE << b >>

\* try_parse_bytes preferring the workflow over the chat-history request
Classify_Mut(str) ==
    IF ParsesWorkflow(str) THEN [variant |-> "Workflow", text |-> str]
    ELSE IF ParsesChat(str) THEN [variant |-> "ChatHistory", text |-> str]
    ELSE [variant |-> "String", text |-> str]

\* try_parse_bytes after parse_downloadable: the if / else if / else
Classify(str) ==
    IF ParsesChat(str) THEN [variant |-> "ChatHistory", text |-> str]
    ELSE IF ParsesWorkflow(str) THEN [variant |-> "Workflow", text |-> str]
    ELSE [variant |-> "String", text |-> str]

\* parse_downloadable: the string of the bytes, or of the blob they are the
\* key of; << >> for an error. got is what get returned, << >> for an error
parse_downloadable(b, got) ==
    LET str == bytes_to_string(b) IN
    IF str = << >> THEN << >>
    ELSE IF is_key(str[1]) # << >>
         THEN IF got = << >> THEN << >> ELSE bytes_to_string(got[1])
         ELSE str

\* what get returns for the input when it is a key: the blob, or an error
\* when the gateway fails or has no such transaction
Downloads(b) ==
    LET str == bytes_to_string(b) IN
    IF str # << >> /\ is_key(str[1]) # << >>
       /\ is_key(str[1])[1].arweave \in DOMAIN arweave
    THEN { << >>, << arweave[is_key(str[1])[1].arweave] >> }
    ELSE { << >> }

parseFrame ==
    << prepVars, writeVars, cfgVars, chainVars, invVars, loopVars,
       nGens, vresults, scores, vpc, storeVars, execVars, postVars, mineVars, retryVars, auxVars >>

\* RequestType::try_parse_bytes
TryParseBytes ==
    /\ parsePc = "call"
    /\ \E got \in Downloads(input_bytes) :
         LET str == parse_downloadable(input_bytes, got) IN
         IF str = << >>
         THEN /\ parsePc' = "failed"
              /\ UNCHANGED parsed
         ELSE /\ parsed' = Classify(str[1])
              /\ parsePc' = "done"
    /\ UNCHANGED << parseFrame, input_bytes >>

\* the next request input
ParseAgain ==
    /\ parsePc \in {"done", "failed"}
    /\ input_bytes' \in Texts
    /\ parsed' = [variant |-> "None", text |-> << >>]
    /\ parsePc' = "call"
    /\ UNCHANGED parseFrame

\* try_parse_bytes is called on some input; the network holds a blob or not
ParseInit ==
    /\ input_bytes \in Texts
    /\ parsed = [variant |-> "None", text |-> << >>]
    /\ parsePc = "call"
    /\ byte_limit = DEFAULT_BYTE_LIMIT
    /\ wallet = "Some"
    /\ value = << >>
    /\ arweave \in { << >> } \cup { [k \in {"tx1"} |-> t] : t \in Texts }
    /\ uploads = 0
    /\ putResult = << >>
    /\ fetched = << >>
    /\ stPc = "idle"
    /\ ExecIdle
    /\ PostIdle
    /\ MineIdle
    /\ RetryIdle
    /\ StoreRest

ParseNext ==
    \/ TryParseBytes
    \/ ParseAgain

SpecParse == ParseInit /\ [][ParseNext]_vars

\* ------------------------------------------------------------------------
\* execute_generation (core/src/compute/generation/execute.rs)
\* ------------------------------------------------------------------------

\* the variants of GenerationRequest
Variants == {"Workflow", "String", "ChatHistory"}

\* the requests of the model; only a chat-history request has a history_id
Requests ==
    { [variant |-> v, history_id |-> 0] : v \in Variants }
      \cup { [variant |-> "ChatHistory", history_id |-> h] : h \in 1..MaxHistoryId }

\* the histories a best response may parse to (Vec<MessageInput>), by role
PriorHistories == { << >>, << "user", "assistant" >> }

execFrame ==
    << prepVars, writeVars, cfgVars, chainVars, invVars, loopVars,
       nGens, vresults, scores, vpc, storeVars, parseVars, postVars, mineVars, retryVars, auxVars >>

\* execute_generation returns an error
ExecErr(e) ==
    /\ epc' = "failed"
    /\ eresult' = e

\* the match with the history check of the older RequestType::execute: the
\* node is required first, whatever the history_id
Match_Mut ==
    /\ epc = "start"
    /\ IF request.variant # "ChatHistory"
       THEN epc' = "execute" /\ UNCHANGED eresult
       ELSE IF hasNode
            THEN epc' = "nextTaskId" /\ UNCHANGED eresult
            ELSE ExecErr("Err_node_required")
    /\ UNCHANGED << execFrame, request, hasNode, nextTaskId, calls, history,
                    llm, timer, hangs >>

\* the match on the request and, for a chat-history request, the first two
\* branches of the history: history_id == 0, a node, no node
Match ==
    /\ epc = "start"
    /\ IF request.variant # "ChatHistory"
       THEN epc' = "execute" /\ UNCHANGED eresult
       ELSE IF request.history_id = 0
            THEN epc' = "execute" /\ UNCHANGED eresult
            ELSE IF hasNode
                 THEN epc' = "nextTaskId" /\ UNCHANGED eresult
                 ELSE ExecErr("Err_node_required")
    /\ UNCHANGED << execFrame, request, hasNode, nextTaskId, calls, history,
                    llm, timer, hangs >>

\* the check of the history_id accepting the next task id itself
ReadNextTaskId_Mut ==
    /\ epc = "nextTaskId"
    /\ calls' = Append(calls, "nextTaskId")
    /\ \E ok \in BOOLEAN :
         IF ~ ok THEN ExecErr("Err_rpc")
         ELSE IF request.history_id > nextTaskId
              THEN ExecErr("Err_history_too_large")
              ELSE epc' = "getBestResponse" /\ UNCHANGED eresult
    /\ UNCHANGED << execFrame, request, hasNode, nextTaskId, history, llm,
                    timer, hangs >>

\* node.coordinator.nextTaskId().call().await? and the comparison with it
ReadNextTaskId ==
    /\ epc = "nextTaskId"
    /\ calls' = Append(calls, "nextTaskId")
    /\ \E ok \in BOOLEAN :
         IF ~ ok THEN ExecErr("Err_rpc")
         ELSE IF request.history_id >= nextTaskId
              THEN ExecErr("Err_history_too_large")
              ELSE epc' = "getBestResponse" /\ UNCHANGED eresult
    /\ UNCHANGED << execFrame, request, hasNode, nextTaskId, history, llm,
                    timer, hangs >>

\* node.coordinator.getBestResponse(history_id).call()
ReadBestResponse ==
    /\ epc = "getBestResponse"
    /\ calls' = Append(calls, "getBestResponse")
    /\ \E ok \in BOOLEAN :
         IF ok THEN epc' = "parse" /\ UNCHANGED eresult
         ELSE ExecErr("Err_rpc")
    /\ UNCHANGED << execFrame, request, hasNode, nextTaskId, history, llm,
                    timer, hangs >>

\* parse_downloadable of the output and its parse as an array of messages:
\* the messages, or the fallback to the request of the task, or an error of
\* the download
ParseHistory ==
    /\ epc = "parse"
    /\ \/ /\ history' \in PriorHistories
          /\ epc' = "execute"
          /\ UNCHANGED eresult
       \/ /\ epc' = "requests"
          /\ UNCHANGED << history, eresult >>
       \/ /\ ExecErr("Err_download")
          /\ UNCHANGED history
    /\ UNCHANGED << execFrame, request, hasNode, nextTaskId, calls, llm, timer,
                    hangs >>

\* node.coordinator.requests(history_id).call() and the history made of the
\* input and the output of that task
ReadRequest ==
    /\ epc = "requests"
    /\ calls' = Append(calls, "requests")
    /\ \E ok \in BOOLEAN :
         IF ok
         THEN /\ history' = << "user", "assistant" >>
              /\ epc' = "execute"
              /\ UNCHANGED eresult
         ELSE /\ ExecErr("Err_rpc")
              /\ UNCHANGED history
    /\ UNCHANGED << execFrame, request, hasNode, nextTaskId, llm, timer, hangs >>

\* executor.execute is awaited: inside a select! with a sleep for a string
\* and a chat-history request, on its own for a workflow
LlmStart ==
    /\ epc = "execute"
    /\ llm = "none"
    /\ llm' = "running"
    /\ timer' = (request.variant # "Workflow")
    /\ UNCHANGED << execFrame, request, hasNode, nextTaskId, calls, history,
                    hangs, epc, eresult >>

\* executor.execute returns: its error, or the output, which a chat-history
\* request appends to the history as an assistant message
LlmReturns ==
    /\ llm = "running"
    /\ ~ hangs
    /\ llm' = "returned"
    /\ \E ok \in BOOLEAN :
         IF ok
         THEN /\ epc' = "done"
              /\ eresult' = "Ok"
              /\ history' = IF request.variant = "ChatHistory"
                            THEN Append(history, "assistant")
                            ELSE history
         ELSE /\ ExecErr("Err_execute")
              /\ UNCHANGED history
    /\ UNCHANGED << execFrame, request, hasNode, nextTaskId, calls, timer,
                    hangs >>

\* the sleep of the select! ends first
LlmTimeout ==
    /\ llm = "running"
    /\ timer
    /\ llm' = "timedout"
    /\ ExecErr("Err_timed_out")
    /\ UNCHANGED << execFrame, request, hasNode, nextTaskId, calls, history,
                    timer, hangs >>

\* execute_generation is called with a request, with or without a node
ExecInit ==
    /\ request \in Requests
    /\ hasNode \in BOOLEAN
    /\ nextTaskId \in 1..MaxNextTask
    /\ calls = << >>
    /\ history = << >>
    /\ llm = "none"
    /\ timer = FALSE
    /\ hangs \in BOOLEAN
    /\ epc = "start"
    /\ eresult = "none"
    /\ StoreIdle
    /\ ParseIdle
    /\ PostIdle
    /\ MineIdle
    /\ RetryIdle
    /\ StoreRest

ExecNext ==
    \/ Match
    \/ ReadNextTaskId
    \/ ReadBestResponse
    \/ ParseHistory
    \/ ReadRequest
    \/ LlmStart
    \/ LlmReturns
    \/ LlmTimeout

SpecExec == ExecInit /\ [][ExecNext]_vars

\* ------------------------------------------------------------------------
\* The post-processing (generation/handler.rs, generation/postprocess/swan.rs)
\* ------------------------------------------------------------------------

\* SwanPurchasePostProcessor::PROTOCOL
PROTOCOL == "swan-agent-purchase"

\* the protocol tags of the model, three bytes for the 32 of a bytes32, the
\* string followed by zero bytes: the tag of zeros, tags of the Swan
\* protocol with and without a version, and tags that only hold its name
Protocols ==
    { << "0x00", "0x00", "0x00" >>,
      << "v", "/", "v" >>,
      << PROTOCOL, "/", "v" >>,
      << PROTOCOL, "0x00", "0x00" >>,
      << PROTOCOL, "v", "/" >>,
      << "v", "/", PROTOCOL >>,
      << "/", PROTOCOL, "0x00" >> }

RECURSIVE First(_, _, _)
\* str.find from a position: the least index from i on that holds tok, 0 for None
First(str, tok, i) ==
    IF i > Len(str) THEN 0
    ELSE IF str[i] = tok THEN i ELSE First(str, tok, i + 1)

\* bytes32_to_string: the bytes before the first zero byte
bytes32_to_string(b) ==
    IF First(b, "0x00", 1) = 0 THEN b ELSE SubSeq(b, 1, First(b, "0x00", 1) - 1)

\* protocol_string.split('/').next().unwrap_or_default()
SplitNext(str) ==
    IF First(str, "/", 1) = 0 THEN str ELSE SubSeq(str, 1, First(str, "/", 1) - 1)

\* the markers the handler builds the Swan post-processor with
start_marker == "<shop_list>"
end_marker == "</shop_list>"

\* a line feed and a blank
NL == "\\n"
SP == " "

\* the texts of addresses: one address in upper and in lower case, another
\* one; the 20 bytes they stand for are written 1 and 2
AddressTexts == {"0xA1", "0xa1", "0xA2"}

\* JSON string literals: of an address, of a word, and of an address
\* written with an escape (\u0030 for its first digit)
QA2 == "\"0xA2\""
QJunk == "\"junk\""
QEscA1 == "\"\\u0030xA1\""
QStrings == {QA2, QJunk, QEscA1}

\* the string a JSON string literal stands for
Unquote(q) ==
    CASE q = QA2 -> "0xA2"
      [] q = QJunk -> "junk"
      [] q = QEscA1 -> "0xA1"

\* what an LLM output is made of: the markers, lines with an address, with
\* blanks around it, without a line feed, with a word, an empty line, and
\* JSON arrays of strings
Segments ==
    { << start_marker >>,
      << end_marker >>,
      << NL >>,
      << SP, "0xa1", SP, NL >>,
      << "0xA1" >>,
      << "0xA2", NL >>,
      << "junk", NL >>,
      << "[", QA2, ",", NL, QJunk, "]", NL >>,
      << "[", QEscA1, "]" >> }

RECURSIVE Flatten(_)
Flatten(segs) ==
    IF segs = << >> THEN << >> ELSE Head(segs) \o Flatten(Tail(segs))

\* the outputs of the LLM in the model
Outputs == { Flatten(segs) : segs \in UNION { [1..n -> Segments] : n \in 0..MaxSegs } }

\* the region of interest: Some(text between the first start marker and the
\* first end marker after it) as << text >>, None as << >>
Roi(input) ==
    LET start == First(input, start_marker, 1) IN
    IF start = 0 THEN << >>
    ELSE LET end == First(input, end_marker, start + 1) IN
         IF end = 0 THEN << >> ELSE << SubSeq(input, start + 1, end - 1) >>

\* the text without its white space
StripWs(str) == SelectSeq(str, LAMBDA t : t \notin {SP, NL})

\* the text is a JSON array of string literals
IsStringArray(str) ==
    LET w == StripWs(str) IN
    /\ Len(w) >= 2
    /\ w[1] = "["
    /\ w[Len(w)] = "]"
    /\ \/ Len(w) = 2
       \/ /\ Len(w) % 2 = 1
          /\ \A k \in 2..(Len(w) - 1) :
               IF k % 2 = 0 THEN w[k] \in QStrings ELSE w[k] = ","

\* the string literals of a JSON array of strings, in order
Literals(str) ==
    LET w == StripWs(str) IN [k \in 1..((Len(w) - 1) \div 2) |-> w[2 * k]]

\* serde_json::from_str::<Vec<&str>>(&roi): Ok(list) as << list >>, an error
\* as << >>. A &str borrows from the input, so a literal with an escape,
\* whose string is not in the input, is an error
JsonList(roi) ==
    IF IsStringArray(roi) /\ \A k \in 1..Len(Literals(roi)) : Literals(roi)[k] # QEscA1
    THEN << [k \in 1..Len(Literals(roi)) |-> << Unquote(Literals(roi)[k]) >>] >>
    ELSE << >>

RECURSIVE Lines(_)
\* roi.lines()
Lines(str) ==
    IF str = << >> THEN << >>
    ELSE IF First(str, NL, 1) = 0 THEN << str >>
    ELSE << SubSeq(str, 1, First(str, NL, 1) - 1) >>
           \o Lines(SubSeq(str, First(str, NL, 1) + 1, Len(str)))

RECURSIVE Trim(_)
\* line.trim()
Trim(line) ==
    IF line = << >> THEN line
    ELSE IF Head(line) = SP THEN Trim(Tail(line))
    ELSE IF line[Len(line)] = SP THEN Trim(SubSeq(line, 1, Len(line) - 1))
    ELSE line

\* the lines of the region, trimmed, the empty ones removed
TrimmedLines(roi) ==
    SelectSeq([k \in 1..Len(Lines(roi)) |-> Trim(Lines(roi)[k])],
              LAMBDA l : l # << >>)

\* shopping_list: the JSON list if the region parses, else the lines
ShoppingList(roi) ==
    IF JsonList(roi) # << >> THEN JsonList(roi)[1] ELSE TrimmedLines(roi)

\* Address::from_str(line): the address, 0 for an error
AddressFromStr(line) ==
    IF Len(line) = 1 /\ line[1] \in AddressTexts
    THEN IF line[1] = "0xA2" THEN 2 ELSE 1
    ELSE 0

RECURSIVE FilterMap(_)
\* filter_map over the shopping list: the addresses that parse, in order
FilterMap(list) ==
    IF list = << >> THEN << >>
    ELSE IF AddressFromStr(Head(list)) # 0
         THEN << AddressFromStr(Head(list)) >> \o FilterMap(Tail(list))
         ELSE FilterMap(Tail(list))

\* addresses.abi_encode(): the offset, the length, then one word an address
abi_encode(addresses) == << 32, Len(addresses) >> \o addresses

\* <Vec<Address>>::abi_decode: Some(addresses) as << addresses >>, an error
\* as << >>
abi_decode(words) ==
    IF Len(words) >= 2 /\ words[1] = 32 /\ words[2] = Len(words) - 2
    THEN << SubSeq(words, 3, Len(words)) >>
    ELSE << >>

postFrame ==
    << prepVars, writeVars, cfgVars, chainVars, invVars, loopVars,
       nGens, vresults, scores, vpc, storeVars, parseVars, execVars, mineVars, retryVars, auxVars >>

\* the dispatch on protocol_string.starts_with(PROTOCOL)
IsSwan_Mut(tag) ==
    bytes32_to_string(tag) # << >> /\ bytes32_to_string(tag)[1] = PROTOCOL

\* the match on the prefix of the protocol string takes the Swan arm
IsSwan(tag) == SplitNext(bytes32_to_string(tag)) = << PROTOCOL >>

\* IdentityPostProcessor.post_process(output)
PostIdentity ==
    /\ postPc = "call"
    /\ ~ IsSwan(protocol)
    /\ post' = [output |-> output, metadata |-> output, use_storage |-> TRUE]
    /\ postPc' = "done"
    /\ UNCHANGED << postFrame, protocol, output >>

\* SwanPurchasePostProcessor::new("<shop_list>", "</shop_list>").post_process(output)
PostSwan ==
    /\ postPc = "call"
    /\ IsSwan(protocol)
    /\ IF Roi(output) = << >>
       THEN /\ postPc' = "failed"
            /\ UNCHANGED post
       ELSE /\ post' = [output |-> abi_encode(FilterMap(ShoppingList(Roi(output)[1]))),
                        metadata |-> output,
                        use_storage |-> FALSE]
            /\ postPc' = "done"
    /\ UNCHANGED << postFrame, protocol, output >>

\* handle_generation has the output of the LLM for a task with some protocol
PostInit ==
    /\ protocol \in Protocols
    /\ output \in Outputs
    /\ post = [output |-> << >>, metadata |-> << >>, use_storage |-> FALSE]
    /\ postPc = "call"
    /\ StoreIdle
    /\ ParseIdle
    /\ ExecIdle
    /\ MineIdle
    /\ RetryIdle
    /\ StoreRest

PostNext ==
    \/ PostIdentity
    \/ PostSwan

SpecPost == PostInit /\ [][PostNext]_vars

\* ------------------------------------------------------------------------
\* The nonce miner (mine_nonce, called at generation/handler.rs:94)
\* ------------------------------------------------------------------------

\* the bits of a hash: 256 for Keccak-256, 2 in the model
HashBits == 2

RECURSIVE Pow2(_)
Pow2(n) == IF n = 0 THEN 1 ELSE 2 * Pow2(n - 1)

\* the hashes
Hashes == 0..(Pow2(HashBits) - 1)

\* the difficulties, from 0 to all the bits of the hash but one
Difficulties == 0..(HashBits - 1)

\* the bound a hash must be under: 2^(256 - difficulty)
Target(d) == Pow2(HashBits - d)

mineFrame ==
    << prepVars, writeVars, cfgVars, chainVars, invVars, loopVars,
       nGens, vresults, scores, vpc, storeVars, parseVars, execVars, postVars, retryVars, auxVars >>

\* the search stopping at the first nonce whose hash is at most the target
MineFound_Mut ==
    /\ minePc = "search"
    /\ keccak[nonce] <= Target(difficulty)
    /\ minePc' = "done"
    /\ UNCHANGED << mineFrame, difficulty, keccak, nonce >>

\* the hash of the preimage with the nonce is below the target: the nonce
\* is returned
MineFound ==
    /\ minePc = "search"
    /\ keccak[nonce] < Target(difficulty)
    /\ minePc' = "done"
    /\ UNCHANGED << mineFrame, difficulty, keccak, nonce >>

\* the hash is not below the target: the next nonce is tried
MineStep ==
    /\ minePc = "search"
    /\ ~ (keccak[nonce] < Target(difficulty))
    /\ IF nonce < MaxNonce
       THEN nonce' = nonce + 1 /\ UNCHANGED minePc
       ELSE minePc' = "exhausted" /\ UNCHANGED nonce
    /\ UNCHANGED << mineFrame, difficulty, keccak >>

\* mine_nonce is called: the requester, the responder, the input and the
\* task fix the hash of each nonce
MineInit ==
    /\ difficulty \in Difficulties
    /\ keccak \in [0..MaxNonce -> Hashes]
    /\ nonce = 0
    /\ minePc = "search"
    /\ StoreIdle
    /\ ParseIdle
    /\ ExecIdle
    /\ PostIdle
    /\ RetryIdle
    /\ StoreRest

MineNext ==
    \/ MineFound
    \/ MineStep

SpecMine == MineInit /\ [][MineNext]_vars

\* ------------------------------------------------------------------------
\* execute_workflow_with_timedout_retries (core/src/compute/execute.rs)
\* ------------------------------------------------------------------------

NUM_RETRIES == 4

\* how executor.execute may return: the output, ExecutionError::WorkflowFailed,
\* or another ExecutionError
ExecResults == {"Ok", "WorkflowFailed", "OtherError"}

retryFrame ==
    << prepVars, writeVars, cfgVars, chainVars, invVars, loopVars,
       nGens, vresults, scores, vpc, storeVars, parseVars, execVars, postVars,
       mineVars, auxVars >>

\* the test of the while loop holds: an attempt starts, executor.execute
\* racing the sleep
AttemptStart ==
    /\ retryPc = "loop"
    /\ retries < NUM_RETRIES
    /\ retryPc' = "attempt"
    /\ UNCHANGED << retryFrame, duration, retries, attempts, rresult >>

\* the execution branch retrying after every error
AttemptReturns_Mut ==
    /\ retryPc = "attempt"
    /\ \E r \in ExecResults :
         /\ attempts' = Append(attempts, r)
         /\ IF r # "Ok"
            THEN /\ retries' = IF retries < NUM_RETRIES THEN retries + 1 ELSE retries
                 /\ retryPc' = "loop"
                 /\ UNCHANGED rresult
            ELSE /\ retryPc' = "done"
                 /\ rresult' = r
                 /\ UNCHANGED retries
    /\ UNCHANGED << retryFrame, duration >>

\* the execution branch of the select!: WorkflowFailed counts a retry and
\* continues, anything else is returned
AttemptReturns ==
    /\ retryPc = "attempt"
    /\ \E r \in ExecResults :
         /\ attempts' = Append(attempts, r)
         /\ IF r = "WorkflowFailed"
            THEN /\ retries' = IF retries < NUM_RETRIES THEN retries + 1 ELSE retries
                 /\ retryPc' = "loop"
                 /\ UNCHANGED rresult
            ELSE /\ retryPc' = "done"
                 /\ rresult' = r
                 /\ UNCHANGED retries
    /\ UNCHANGED << retryFrame, duration >>

\* the sleep branch of the select!: the attempt is dropped, a retry counted
AttemptTimeout ==
    /\ retryPc = "attempt"
    /\ attempts' = Append(attempts, "Timeout")
    /\ retries' = IF retries < NUM_RETRIES THEN retries + 1 ELSE retries
    /\ retryPc' = "loop"
    /\ UNCHANGED << retryFrame, duration, rresult >>

\* the test of the while loop fails: all retries failed
RetriesExhausted ==
    /\ retryPc = "loop"
    /\ ~ (retries < NUM_RETRIES)
    /\ retryPc' = "done"
    /\ rresult' = "ExecutionFailedAfterRetries"
    /\ UNCHANGED << retryFrame, duration, retries, attempts >>

\* the wrapper is called with a workflow, a model and a duration
RetryInit ==
    /\ duration \in {"max_time", "default"}
    /\ retries = 0
    /\ attempts = << >>
    /\ retryPc = "loop"
    /\ rresult = "none"
    /\ StoreIdle
    /\ ParseIdle
    /\ ExecIdle
    /\ PostIdle
    /\ MineIdle
    /\ StoreRest

RetryNext ==
    \/ AttemptStart
    \/ AttemptReturns
    \/ AttemptTimeout
    \/ RetriesExhausted

SpecRetry == RetryInit /\ [][RetryNext]_vars

\* ------------------------------------------------------------------------
\* Token approvals of the register and request_task commands
\* ------------------------------------------------------------------------

Amounts == 0..MaxAmount

Commands == {"register", "request_task"}

\* what the contract of the command pulls from the caller with transferFrom:
\* the registry the stake, the coordinator the total fee
Required == IF cmd = "register" THEN stake ELSE total_fee

tokenFrame ==
    << prepVars, writeVars, cfgVars, chainVars, invVars, loopVars,
       nGens, vresults, scores, vpc, storeVars, parseVars, execVars, postVars,
       mineVars, retryVars, tailVars, prepareVars, chatVars >>

\* the command returns
TokReturn(r) ==
    /\ tokPc' = "done"
    /\ tokResult' = r

\* register: a node that is registered already does nothing
RegisterCheck ==
    /\ tokPc = "start"
    /\ cmd = "register"
    /\ IF is_registered
       THEN TokReturn("Ok")
       ELSE /\ tokPc' = "allowance"
            /\ UNCHANGED tokResult
    /\ UNCHANGED << tokenFrame, cmd, stake, total_fee, balance, allowance,
                    is_registered, approvals >>

\* register: the stake and the allowance are read; with too small an
\* allowance the balance is compared with the difference
RegisterAllowance ==
    /\ tokPc = "allowance"
    /\ cmd = "register"
    /\ IF allowance < stake
       THEN LET difference == stake - allowance
            IN  IF balance < difference
                THEN TokReturn("Err_balance")
                ELSE /\ tokPc' = "approve"
                     /\ UNCHANGED tokResult
       ELSE /\ tokPc' = "send"
            /\ UNCHANGED tokResult
    /\ UNCHANGED << tokenFrame, cmd, stake, total_fee, balance, allowance,
                    is_registered, approvals >>

\* request_task: the total fee is read and compared with the balance
RequestFee ==
    /\ tokPc = "start"
    /\ cmd = "request_task"
    /\ IF balance < total_fee
       THEN TokReturn("Err_balance")
       ELSE /\ tokPc' = "allowance"
            /\ UNCHANGED tokResult
    /\ UNCHANGED << tokenFrame, cmd, stake, total_fee, balance, allowance,
                    is_registered, approvals >>

\* request_task: the allowance is read and compared with the total fee
RequestAllowance ==
    /\ tokPc = "allowance"
    /\ cmd = "request_task"
    /\ tokPc' = IF allowance < total_fee THEN "approve" ELSE "send"
    /\ UNCHANGED << tokenFrame, cmd, stake, total_fee, balance, allowance,
                    is_registered, approvals, tokResult >>

\* approve(spender, required - allowance): the ERC-20 approve sets the
\* allowance of the spender to the amount of the call; the transaction may
\* fail, and then the command returns the error
Approve ==
    /\ tokPc = "approve"
    /\ \E ok \in BOOLEAN :
         IF ok
         THEN LET amount == Required - allowance
              IN  /\ allowance' = amount
                  /\ approvals' = Append(approvals, amount)
                  /\ tokPc' = "send"
                  /\ UNCHANGED tokResult
         ELSE /\ TokReturn("Err_approve")
              /\ UNCHANGED << allowance, approvals >>
    /\ UNCHANGED << tokenFrame, cmd, stake, total_fee, balance, is_registered >>

\* register_kind / request: the contract pulls the required amount with
\* transferFrom, which reverts unless the allowance and the balance cover it
SendCommand ==
    /\ tokPc = "send"
    /\ IF allowance >= Required /\ balance >= Required
       THEN /\ allowance' = allowance - Required
            /\ balance' = balance - Required
            /\ is_registered' = (cmd = "register")
            /\ TokReturn("Ok")
       ELSE /\ TokReturn("Err_rejected")
            /\ UNCHANGED << allowance, balance, is_registered >>
    /\ UNCHANGED << tokenFrame, cmd, stake, total_fee, approvals >>

\* a command is called by a caller with some balance and some allowance
\* left to the spender
TokenInit ==
    /\ cmd \in Commands
    /\ stake \in (IF cmd = "register" THEN 1..MaxAmount ELSE {0})
    /\ total_fee \in (IF cmd = "request_task" THEN 1..MaxAmount ELSE {0})
    /\ balance \in Amounts
    /\ allowance \in Amounts
    /\ is_registered \in (IF cmd = "register" THEN BOOLEAN ELSE {FALSE})
    /\ approvals = << >>
    /\ tokPc = "start"
    /\ tokResult = "none"
    /\ TailIdle
    /\ PrepareIdle
    /\ ChatIdle
    /\ CompRest
    /\ NodeRest

TokenNext ==
    \/ RegisterCheck
    \/ RegisterAllowance
    \/ RequestFee
    \/ RequestAllowance
    \/ Approve
    \/ SendCommand

SpecToken == TokenInit /\ [][TokenNext]_vars

\* ------------------------------------------------------------------------
\* The end of the handlers: storage, nonce and response, with their values
\* (core/src/compute/generation/handler.rs:72-108,
\*  core/src/compute/validation/handler.rs:46-81)
\* ------------------------------------------------------------------------

\* what the post-processor returns, (output, metadata, use_storage): the
\* identity gives the LLM output twice and offloads it, Swan gives an
\* encoding and the LLM output and does not offload
PostTuples ==
    { [output |-> s, metadata |-> s, use_storage |-> TRUE] : s \in Values }
    \cup { [output |-> e, metadata |-> s, use_storage |-> FALSE] :
             e \in Values, s \in Values }

\* what handle_validation has before its storage step: the scores, and the
\* serialized validations as metadata
ValidationTuples ==
    { [output |-> << >>, metadata |-> s, use_storage |-> FALSE] : s \in Values }

\* request.input as it is on the chain: a text, or the key of a blob
RawInputs == { << "x" >>, KeyToString(ArweaveKey("tx1")) }

\* the input after parse_downloadable: the blob of a key, else the bytes
ResolvedInput(raw) ==
    IF is_key(raw) # << >> THEN << "b", "l", "o", "b" >> ELSE raw

\* the task of the handler: its id, and its request as far as the miner
\* reads it
TailRequests ==
    [task_id : Tasks, difficulty : 0..1, requester : Addrs, input : RawInputs]

\* put_if_large(value) when put gives the transaction id: the key's string
\* for a value over the limit, else the value
put_if_large(v, limit, id) ==
    IF Len(v) > limit THEN KeyToString(ArweaveKey(id)) ELSE v

tailFrame ==
    << prepVars, writeVars, cfgVars, chainVars, invVars, loopVars,
       nGens, vresults, scores, vpc, storeVars, parseVars, execVars, postVars,
       mineVars, retryVars, tokenVars, prepareVars, chatVars >>

\* the handler returns
TailReturn(r) ==
    /\ tailPc' = "done"
    /\ tailResult' = r

\* ArweaveStorage::new_from_env()?: env::var("ARWEAVE_WALLET_PATH") is an
\* error when the variable is not set
TailNewFromEnv ==
    /\ tailPc = "storage"
    /\ IF env_wallet = "None"
       THEN TailReturn("Err_env")
       ELSE /\ tailPc' = IF tailHandler = "generation"
                         THEN "put_output" ELSE "put_metadata"
            /\ UNCHANGED tailResult
    /\ UNCHANGED << tailFrame, tailHandler, env_wallet, treq, tinput, tpost,
                    toutput, tmetadata, tuploads, preimage, tnonce, tsent >>

\* the output of handle_generation going to the storage whatever the
\* processor's flag
TailPutOutput_Mut ==
    /\ tailPc = "put_output"
    /\ \E ok \in BOOLEAN, id \in TxIds :
         IF Len(tpost.output) > DEFAULT_BYTE_LIMIT
         THEN IF ok
              THEN /\ toutput' = put_if_large(tpost.output, DEFAULT_BYTE_LIMIT, id)
                   /\ tuploads' = Append(tuploads, tpost.output)
                   /\ tailPc' = "put_metadata"
                   /\ UNCHANGED tailResult
              ELSE /\ TailReturn("Err_upload")
                   /\ UNCHANGED << toutput, tuploads >>
         ELSE /\ toutput' = tpost.output
              /\ tailPc' = "put_metadata"
              /\ UNCHANGED << tuploads, tailResult >>
    /\ UNCHANGED << tailFrame, tailHandler, env_wallet, treq, tinput, tpost,
                    tmetadata, preimage, tnonce, tsent >>

\* handle_generation: `if use_storage { arweave.put_if_large(output).await? }
\* else { output }`
TailPutOutput ==
    /\ tailPc = "put_output"
    /\ \E ok \in BOOLEAN, id \in TxIds :
         IF tpost.use_storage /\ Len(tpost.output) > DEFAULT_BYTE_LIMIT
         THEN IF ok
              THEN /\ toutput' = put_if_large(tpost.output, DEFAULT_BYTE_LIMIT, id)
                   /\ tuploads' = Append(tuploads, tpost.output)
                   /\ tailPc' = "put_metadata"
                   /\ UNCHANGED tailResult
              ELSE /\ TailReturn("Err_upload")
                   /\ UNCHANGED << toutput, tuploads >>
         ELSE /\ toutput' = tpost.output
              /\ tailPc' = "put_metadata"
              /\ UNCHANGED << tuploads, tailResult >>
    /\ UNCHANGED << tailFrame, tailHandler, env_wallet, treq, tinput, tpost,
                    tmetadata, preimage, tnonce, tsent >>

\* either handler: arweave.put_if_large(metadata).await?
TailPutMetadata ==
    /\ tailPc = "put_metadata"
    /\ \E ok \in BOOLEAN, id \in TxIds :
         IF Len(tpost.metadata) > DEFAULT_BYTE_LIMIT
         THEN IF ok
              THEN /\ tmetadata' = put_if_large(tpost.metadata, DEFAULT_BYTE_LIMIT, id)
                   /\ tuploads' = Append(tuploads, tpost.metadata)
                   /\ tailPc' = "nonce"
                   /\ UNCHANGED tailResult
              ELSE /\ TailReturn("Err_upload")
                   /\ UNCHANGED << tmetadata, tuploads >>
         ELSE /\ tmetadata' = tpost.metadata
              /\ tailPc' = "nonce"
              /\ UNCHANGED << tuploads, tailResult >>
    /\ UNCHANGED << tailFrame, tailHandler, env_wallet, treq, tinput, tpost,
                    toutput, preimage, tnonce, tsent >>

\* handle_generation: mine_nonce(request.parameters.difficulty,
\* &request.requester, &node.address(), &request.input, &task_id).nonce
GenTailMine ==
    /\ tailPc = "nonce"
    /\ tailHandler = "generation"
    /\ preimage' = << [difficulty |-> treq.difficulty,
                       requester |-> treq.requester,
                       responder |-> Self,
                       input |-> treq.input,
                       task_id |-> treq.task_id] >>
    /\ tnonce' \in 0..MaxNonce
    /\ tailPc' = "respond"
    /\ UNCHANGED << tailFrame, tailHandler, env_wallet, treq, tinput, tpost,
                    toutput, tmetadata, tuploads, tsent, tailResult >>

\* handle_validation mining over the input it has downloaded
ValTailMine_Mut ==
    /\ tailPc = "nonce"
    /\ tailHandler = "validation"
    /\ preimage' = << [difficulty |-> treq.difficulty,
                       requester |-> treq.requester,
                       responder |-> Self,
                       input |-> tinput,
                       task_id |-> treq.task_id] >>
    /\ tnonce' \in 0..MaxNonce
    /\ tailPc' = "respond"
    /\ UNCHANGED << tailFrame, tailHandler, env_wallet, treq, tinput, tpost,
                    toutput, tmetadata, tuploads, tsent, tailResult >>

\* handle_validation: the same call; request.input is the field of the
\* request, not the local `input` that parse_downloadable returned
ValTailMine ==
    /\ tailPc = "nonce"
    /\ tailHandler = "validation"
    /\ preimage' = << [difficulty |-> treq.difficulty,
                       requester |-> treq.requester,
                       responder |-> Self,
                       input |-> treq.input,
                       task_id |-> treq.task_id] >>
    /\ tnonce' \in 0..MaxNonce
    /\ tailPc' = "respond"
    /\ UNCHANGED << tailFrame, tailHandler, env_wallet, treq, tinput, tpost,
                    toutput, tmetadata, tuploads, tsent, tailResult >>

\* respond_generation(task_id, output, metadata, nonce) /
\* respond_validation(task_id, scores, metadata, nonce): the transaction is
\* sent with these arguments; its error is returned
TailRespond ==
    /\ tailPc = "respond"
    /\ tsent' = << [task_id |-> treq.task_id, output |-> toutput, metadata |-> tmetadata,
                    nonce |-> tnonce] >>
    /\ \E ok \in BOOLEAN : TailReturn(IF ok THEN "Ok" ELSE "Err_tx")
    /\ UNCHANGED << tailFrame, tailHandler, env_wallet, treq, tinput, tpost,
                    toutput, tmetadata, tuploads, preimage, tnonce >>

\* a handler has its processor's tuple (handle_validation its metadata) and
\* comes to the storage step, with or without ARWEAVE_WALLET_PATH set
TailInit ==
    /\ tailHandler \in {"generation", "validation"}
    /\ env_wallet \in {"None", "Some"}
    /\ treq \in TailRequests
    /\ tinput = ResolvedInput(treq.input)
    /\ tpost \in (IF tailHandler = "generation" THEN PostTuples
                  ELSE ValidationTuples)
    /\ toutput = << >>
    /\ tmetadata = << >>
    /\ tuploads = << >>
    /\ preimage = << >>
    /\ tnonce = 0
    /\ tsent = << >>
    /\ tailPc = "storage"
    /\ tailResult = "none"
    /\ TokenIdle
    /\ PrepareIdle
    /\ ChatIdle
    /\ CompRest
    /\ NodeRest

TailNext ==
    \/ TailNewFromEnv
    \/ TailPutOutput
    \/ TailPutMetadata
    \/ GenTailMine
    \/ ValTailMine
    \/ TailRespond

SpecTail == TailInit /\ [][TailNext]_vars

\* ------------------------------------------------------------------------
\* prepare_oracle and the model choice of handle_generation
\* (core/src/node/mod.rs:135-195, core/src/compute/generation/handler.rs:38-56)
\* ------------------------------------------------------------------------

\* the models of the model: the validators' model and another one
ModelSet == {"GPT4o", "GPT4Turbo"}

\* the names a request may list: models, and a name that is no model
ModelNames == ModelSet \cup {"unknown"}

\* request.models: bytes that are no UTF-8 (list |-> {}), or a list of names
RequestModels ==
    { [utf8 |-> FALSE, list |-> {}] }
    \cup { [utf8 |-> TRUE, list |-> l] : l \in SUBSET ModelNames }

\* the kinds of a Vec in the order of [Generator, Validator]
KindsIn(S) ==
    (IF "Generator" \in S THEN << "Generator" >> ELSE << >>)
    \o (IF "Validator" \in S THEN << "Validator" >> ELSE << >>)

prepareFrame ==
    << prepVars, writeVars, cfgVars, chainVars, invVars, loopVars,
       nGens, vresults, scores, vpc, storeVars, parseVars, execVars, postVars,
       mineVars, retryVars, tokenVars, tailVars, chatVars >>

\* prepare_oracle returns an error
PoFail ==
    /\ poPc' = "failed"
    /\ poResult' = "Err"

\* prepare_oracle(kinds, models) is called on the node; no handler runs yet
PoCall ==
    /\ poPc \in {"new", "done", "failed"}
    /\ selResult = "none"
    /\ pkinds' \in KindLists
    /\ pmodels' \in SUBSET ModelSet
    /\ model_config' = {}
    /\ poPc' = "kinds"
    /\ poResult' = "none"
    /\ UNCHANGED << prepareFrame, node_kinds, node_workflows, regKinds, wlisted,
                    selRequest, selModel, selResult >>

\* the kinds: with none passed the registered ones of Generator, Validator
\* are pushed and none is an error; else each passed kind must be registered;
\* is_registered(kind).await? may fail
PoKinds ==
    /\ poPc = "kinds"
    /\ \E ok \in BOOLEAN :
         IF ~ ok THEN PoFail /\ UNCHANGED pkinds
         ELSE IF pkinds = << >>
         THEN IF regKinds = {}
              THEN PoFail /\ UNCHANGED pkinds
              ELSE /\ pkinds' = KindsIn(regKinds)
                   /\ poPc' = "models"
                   /\ UNCHANGED poResult
         ELSE IF Elems(pkinds) \subseteq regKinds
              THEN /\ poPc' = "models"
                   /\ UNCHANGED << pkinds, poResult >>
              ELSE PoFail /\ UNCHANGED pkinds
    /\ UNCHANGED << prepareFrame, pmodels, model_config, node_kinds,
                    node_workflows, regKinds, wlisted, selRequest, selModel,
                    selResult >>

\* DriaWorkflowsConfig::new(models): an empty list of models is an error
PoModels ==
    /\ poPc = "models"
    /\ model_config' = pmodels
    /\ IF pmodels = {}
       THEN PoFail
       ELSE /\ poPc' = "services"
            /\ UNCHANGED poResult
    /\ UNCHANGED << prepareFrame, pkinds, pmodels, node_kinds, node_workflows,
                    regKinds, wlisted, selRequest, selModel, selResult >>

\* model_config.check_services().await?: the library keeps the models whose
\* services answer, and none left is an error
PoServices ==
    /\ poPc = "services"
    /\ \E good \in SUBSET model_config :
         IF good # {}
         THEN /\ model_config' = good
              /\ poPc' = "validator"
              /\ UNCHANGED poResult
         ELSE PoFail /\ UNCHANGED model_config
    /\ UNCHANGED << prepareFrame, pkinds, pmodels, node_kinds,
                    node_workflows, regKinds, wlisted, selRequest, selModel,
                    selResult >>

\* the checks of a validator without the read of the whitelist
PoValidator_Mut ==
    /\ poPc = "validator"
    /\ IF "Validator" \notin Elems(pkinds)
       THEN /\ poPc' = "assign"
            /\ UNCHANGED poResult
       ELSE IF "GPT4o" \notin model_config
       THEN PoFail
       ELSE /\ poPc' = "assign"
            /\ UNCHANGED poResult
    /\ UNCHANGED << prepareFrame, pkinds, pmodels, model_config, node_kinds,
                    node_workflows, regKinds, wlisted, selRequest, selModel,
                    selResult >>

\* the checks of a validator: the models must contain GPT4o, and
\* is_whitelisted(self.address()).await? must be true
PoValidator ==
    /\ poPc = "validator"
    /\ IF "Validator" \notin Elems(pkinds)
       THEN /\ poPc' = "assign"
            /\ UNCHANGED poResult
       ELSE IF "GPT4o" \notin model_config
       THEN PoFail
       ELSE \E ok \in BOOLEAN :
              IF ok /\ wlisted
              THEN /\ poPc' = "assign"
                   /\ UNCHANGED poResult
              ELSE PoFail
    /\ UNCHANGED << prepareFrame, pkinds, pmodels, model_config, node_kinds,
                    node_workflows, regKinds, wlisted, selRequest, selModel,
                    selResult >>

\* self.workflows = model_config; self.kinds = kinds; Ok(())
PoAssign ==
    /\ poPc = "assign"
    /\ node_workflows' = model_config
    /\ node_kinds' = pkinds
    /\ poPc' = "done"
    /\ poResult' = "Ok"
    /\ UNCHANGED << prepareFrame, pkinds, pmodels, model_config, regKinds,
                    wlisted, selRequest, selModel, selResult >>

\* the model choice without the fallback: no match is the handler's error
SelectModel_Mut ==
    /\ poPc \in {"new", "done", "failed"}
    /\ selResult = "none"
    /\ selRequest' \in RequestModels
    /\ IF ~ selRequest'.utf8
       THEN /\ selResult' = "Err_models"
            /\ selModel' = "none"
       ELSE LET matching == selRequest'.list \cap node_workflows IN
            IF matching # {}
            THEN /\ selModel' \in matching
                 /\ selResult' = "Ok"
            ELSE /\ selResult' = "Err_no_match"
                 /\ selModel' = "none"
    /\ UNCHANGED << prepareFrame, pkinds, pmodels, model_config, node_kinds,
                    node_workflows, regKinds, wlisted, poPc, poResult >>

\* handle_generation chooses the model: bytes_to_string(&request.models)?,
\* then get_any_matching_model of the names split at the commas, one of the
\* configured models the request lists; if there is none, the fallback
\* get_matching_model("*"), one of the configured models, whose error (no
\* model is configured) is the panic of expect
SelectModel ==
    /\ poPc \in {"new", "done", "failed"}
    /\ selResult = "none"
    /\ selRequest' \in RequestModels
    /\ IF ~ selRequest'.utf8
       THEN /\ selResult' = "Err_models"
            /\ selModel' = "none"
       ELSE LET matching == selRequest'.list \cap node_workflows IN
            IF matching # {}
            THEN /\ selModel' \in matching
                 /\ selResult' = "Ok"
            ELSE IF node_workflows # {}
            THEN /\ selModel' \in node_workflows
                 /\ selResult' = "Ok"
            ELSE /\ selResult' = "Panic"
                 /\ selModel' = "none"
    /\ UNCHANGED << prepareFrame, pkinds, pmodels, model_config, node_kinds,
                    node_workflows, regKinds, wlisted, poPc, poResult >>

\* DriaOracle::new: kinds: Vec::default(), workflows:
\* DriaWorkflowsConfig::default(); the registry holds some registrations
PrepareInit ==
    /\ node_kinds = << >>
    /\ node_workflows = {}
    /\ regKinds \in SUBSET OracleKind
    /\ wlisted \in BOOLEAN
    /\ pkinds = << >>
    /\ pmodels = {}
    /\ model_config = {}
    /\ poPc = "new"
    /\ poResult = "none"
    /\ selRequest = [utf8 |-> TRUE, list |-> {}]
    /\ selModel = "none"
    /\ selResult = "none"
    /\ TokenIdle
    /\ TailIdle
    /\ ChatIdle
    /\ CompRest
    /\ NodeRest

PrepareNext ==
    \/ PoCall
    \/ PoKinds
    \/ PoModels
    \/ PoServices
    \/ PoValidator
    \/ PoAssign
    \/ SelectModel

SpecPrepare == PrepareInit /\ [][PrepareNext]_vars

\* ------------------------------------------------------------------------
\* Chains of chat tasks: the histories execute_generation reads and returns
\* (core/src/compute/generation/execute.rs:47-108)
\* ------------------------------------------------------------------------

Roles == {"user", "assistant"}

\* the texts of the model: requests' contents and LLM outputs; "[]" is a
\* text that is the JSON of an empty array
Contents == {"hi", "[]"}

\* a role and a content as JSON strings
RoleTok(r) == IF r = "user" THEN "\"user\"" ELSE "\"assistant\""
ContentTok(c) == IF c = "hi" THEN "\"hi\"" ELSE "\"[]\""

\* MessageInput::new_user_message / new_assistant_message
Message(r, c) == [role |-> r, content |-> c]

\* a text as the tokens a JSON reader sees
TextTokens(c) == IF c = "[]" THEN << "[", "]" >> ELSE << c >>

\* serde_json::to_string(&history): the array of the messages' objects,
\* token by token
MsgTokens(m) == << "{", RoleTok(m.role), ContentTok(m.content), "}" >>

RECURSIVE MsgsTokens(_)
MsgsTokens(h) ==
    IF h = << >> THEN << >> ELSE MsgTokens(Head(h)) \o MsgsTokens(Tail(h))

ToJson(h) == << "[" >> \o MsgsTokens(h) \o << "]" >>

\* serde_json::from_str::<Vec<MessageInput>>(&history_str): << messages >>
\* for Ok(messages), << >> for an error
FromJson(t) ==
    IF /\ Len(t) >= 2
       /\ t[1] = "["
       /\ t[Len(t)] = "]"
       /\ (Len(t) - 2) % 4 = 0
       /\ \A k \in 1..((Len(t) - 2) \div 4) :
            /\ t[4 * k - 2] = "{"
            /\ \E r \in Roles : t[4 * k - 1] = RoleTok(r)
            /\ \E c \in Contents : t[4 * k] = ContentTok(c)
            /\ t[4 * k + 1] = "}"
    THEN << [k \in 1..((Len(t) - 2) \div 4) |->
               Message(CHOOSE r \in Roles : t[4 * k - 1] = RoleTok(r),
                       CHOOSE c \in Contents : t[4 * k] = ContentTok(c))] >>
    ELSE << >>

\* the history execute_generation has before it runs the model: none for
\* history_id 0; else the best response's output if it reads as an array of
\* messages, else the input of that task and that output as two messages
PriorHistory(hid) ==
    IF hid = 0 THEN << >>
    ELSE LET history_str == stored[hid].output IN
         IF FromJson(history_str) # << >>
         THEN FromJson(history_str)[1]
         ELSE << Message("user", stored[hid].input),
                 Message("assistant", history_str[1]) >>

chatFrame ==
    << prepVars, writeVars, cfgVars, chainVars, invVars, loopVars,
       nGens, vresults, scores, vpc, storeVars, parseVars, execVars, postVars,
       mineVars, retryVars, tokenVars, tailVars, prepareVars >>

\* a String request is executed and its output stored as the best response
StringTask ==
    /\ Len(stored) < MaxChat
    /\ \E c \in Contents, o \in Contents :
         stored' = Append(stored,
                          [chat |-> FALSE, history_id |-> 0, input |-> c,
                           prior |-> << >>, llm |-> o,
                           output |-> TextTokens(o)])
    /\ UNCHANGED chatFrame

\* the chat request of the older RequestType::execute: the user's content
\* and the output are both pushed
ChatTask_Mut ==
    /\ Len(stored) < MaxChat
    /\ \E hid \in 0..Len(stored), c \in Contents, o \in Contents :
         LET hist == PriorHistory(hid) IN
         stored' = Append(stored,
                          [chat |-> TRUE, history_id |-> hid, input |-> c,
                           prior |-> hist, llm |-> o,
                           output |-> ToJson(hist
                                             \o << Message("user", c),
                                                   Message("assistant", o) >>)])
    /\ UNCHANGED chatFrame

\* a ChatHistory request that refers to an earlier task (or to none): the
\* workflow is made of a clone of the history, the output is pushed to the
\* history as an assistant message and the history is serialized
ChatTask ==
    /\ Len(stored) < MaxChat
    /\ \E hid \in 0..Len(stored), c \in Contents, o \in Contents :
         LET hist == PriorHistory(hid) IN
         stored' = Append(stored,
                          [chat |-> TRUE, history_id |-> hid, input |-> c,
                           prior |-> hist, llm |-> o,
                           output |-> ToJson(Append(hist,
                                                    Message("assistant", o)))])
    /\ UNCHANGED chatFrame

\* no task has been executed
ChatInit ==
    /\ stored = << >>
    /\ TokenIdle
    /\ TailIdle
    /\ PrepareIdle
    /\ CompRest
    /\ NodeRest

ChatNext ==
    \/ StringTask
    \/ ChatTask

SpecChat == ChatInit /\ [][ChatNext]_vars

\* ------------------------------------------------------------------------
\* Properties of the handlers
\* ------------------------------------------------------------------------

\* the handlers of core/src/compute run under the builds core and kinds
CoreHandlers == build \in {"core", "kinds"}

C2_AtMostOneRespond ==
    build = "core" => \A t \in Tasks : sentRespond[t] <= 1

\* C3: when getResponses holds a response of the worker, handle_validation
\* returns Ignored from its first step and sends nothing, whatever validations
\* are recorded; it sends nothing either when that read fails.
C3_OwnGenerationRefused ==
    (CoreHandlers /\ handler = "validation") =>
        /\ (guardSaw = "own" => /\ pc = "done"
                                /\ result = "Ignored"
                                /\ steps = << "guard" >>
                                /\ sentThis = 0)
        /\ (ownAtStart => sentThis = 0 /\ pc \in {"guard", "done"})

\* the worker is a generator of the task and has a validation recorded as
\* well, and the validation handler has returned Ignored
C3_Witness ==
    /\ build = "core" /\ handler = "validation" /\ pc = "done"
    /\ guardSaw = "own" /\ result = "Ignored"
    /\ Self \in validations[task] /\ Other \in validations[task]

\* the order of the steps of handle_generation as the claim C4 states it
C4_ClaimedOrder ==
    << "guard", "request", "model", "protocol", "input", "execute",
       "postprocess", "offload", "nonce", "respond" >>

\* s is a prefix of t
IsPrefix(s, t) ==
    /\ Len(s) <= Len(t)
    /\ \A i \in 1..Len(s) : s[i] = t[i]

\* C4: handle_generation enters its steps in the stated order, sends a
\* transaction only in the last one, and when an earlier step ends the handler
\* the result is an error (Ignored from the guard) and nothing has been sent.
C4_OrderAndNoTxOnFailure ==
    (CoreHandlers /\ handler = "generation") =>
        /\ IsPrefix(steps, C4_ClaimedOrder)
        /\ (sentThis > 0 => steps = C4_ClaimedOrder)
        /\ (pc = "done" /\ steps # C4_ClaimedOrder =>
               /\ sentThis = 0
               /\ \/ result = "Err"
                  \/ result = "Ignored" /\ steps = << "guard" >>)

\* the handler failed in the offload step after an upload, with nothing sent
C4_Witness ==
    /\ build = "core" /\ handler = "generation" /\ pc = "done"
    /\ result = "Err" /\ Len(steps) = 8 /\ steps[8] = "offload"
    /\ uploadsThis = 1 /\ sentThis = 0

\* C5: the dispatcher runs the generation handler exactly for PendingGeneration
\* with Generator in the kinds and the validation handler exactly for
\* PendingValidation with Validator in the kinds; with the role missing it
\* returns Ignored having made no contract read and sent nothing.
C5_Dispatch ==
    (CoreHandlers /\ pc # "idle") =>
        /\ (handler = "generation" <=>
               status = "PendingGeneration" /\ "Generator" \in kinds)
        /\ (handler = "validation" <=>
               status = "PendingValidation" /\ "Validator" \in kinds)
        /\ (handler = "none" =>
               pc = "done" /\ result = "Ignored" /\ ~readChain /\ sentThis = 0)

\* a PendingGeneration event reached a node that is a validator only
C5_Witness ==
    /\ build = "core" /\ pc = "done" /\ status = "PendingGeneration"
    /\ kinds = {"Validator"} /\ handler = "none" /\ result = "Ignored"

\* C6: for a status of Completed or None the dispatcher returns Ignored (no
\* error, no panic), runs no handler and sends nothing, whatever the kinds.
C6_CompletedOrNoneIgnored ==
    (pc = "done" /\ status \in {"Completed", "None"}) =>
        result = "Ignored" /\ handler = "none" /\ sentThis = 0

\* ------------------------------------------------------------------------
\* Properties of the event loop
\* ------------------------------------------------------------------------

\* how often block i was passed to handle_request
Dispatches(i) == Cardinality({ k \in 1..Len(dispatched) : dispatched[k] = i })

\* both status bytes of the event are statuses
Parses(e) ==
    TryFromStatus(e.before) # "Invalid" /\ TryFromStatus(e.after) # "Invalid"

\* C7: with from_block supplied, every event emitted at or after from_block is
\* passed to handle_request exactly once across the backfill and the live
\* subscription: once the loop waits on a drained stream, nothing having failed
\* (query, parsing, stream), each such event has been dispatched once.
C7_ExactlyOnce ==
    ( /\ mode = "run_oracle" /\ fromBlock # 0
      /\ loop = "waiting" /\ streamNext > Len(chainLog)
      /\ queryOk /\ ~reconnects /\ streamErrors = 0
      /\ \A i \in 1..Len(chainLog) : Parses(chainLog[i]) )
    => \A i \in fromBlock..Len(chainLog) : Dispatches(i) = 1

\* the backfill has iterated its range (it was not cut by a cancellation)
BackfillOver ==
    /\ fromBlock # 0 /\ queryOk /\ queue = << >>
    /\ loop \in {"subscribing", "waiting", "live_handling", "sleeping", "stopped"}

\* C8: a failure at one event of the backfill (a handler error, a status byte
\* that is no status) is skipped: every event of the range whose own status
\* bytes parse has been dispatched when the backfill is over.
C8_BackfillSkipsFailures ==
    BackfillOver =>
        \A i \in fromBlock..queried : Parses(chainLog[i]) => Dispatches(i) = 1

\* a step of the live phase in which handle_request returns an error or the
\* stream yields an error item
LiveFault ==
    \/ loop = "live_handling" /\ loop' # "live_handling" /\ lastOutcome' = "Err"
    \/ streamErrors' # streamErrors

\* C9: in the live phase a handler error or an error item of the stream leaves
\* the loop running and waiting on the same open subscription, at the same
\* place of the stream, so that the next event is the next one dispatched.
C9_LiveErrorsKeepLoop ==
    [][ LiveFault =>
          /\ loop' = "waiting"
          /\ loopResult' = "running"
          /\ streamNext' = streamNext /\ streamNext' # 0
          /\ dispatched' = dispatched ]_vars

\* after a handler error and an error item in the live phase, the next event
\* is being handled
C9_Witness ==
    /\ mode = "run_oracle" /\ fromBlock = 0
    /\ lastOutcome = "Err" /\ streamErrors = 1
    /\ loop = "live_handling" /\ Len(dispatched) = 2 /\ ~reconnects

\* the positions of the loop the claim C10 names
C10_LoopStates ==
    {"backfill_query", "backfill", "backfill_handling", "waiting",
     "live_handling", "sleeping"}

\* C10: when the token was cancelled in one of those positions, the loop
\* stops with run_oracle returning Ok.
C10_CancelReturnsOk ==
    (mode = "run_oracle" /\ loop = "stopped" /\ cancelAt \in C10_LoopStates)
    => loopResult = "Ok"

\* C11: a cancellation arriving while a handler has sent its transaction and
\* waits for the receipt lets the wait finish before the loop stops, in the
\* backfill as in the live phase: the loop never stops with a receipt wait in
\* progress.
C11_ReceiptWaitFinishes ==
    ( /\ mode = "run_oracle" /\ loop = "stopped"
      /\ cancelAt \in {"backfill_handling", "live_handling"} ) => ~txWait

\* the positions of the loop in which the live subscription is being opened
\* or is open
LivePhase == {"subscribing", "waiting", "live_handling", "sleeping"}

\* C12: with to_block supplied the node processes the range and stops: it
\* never opens the live subscription, and a run whose query succeeded returns
\* success.
C12_ToBlockStopsAfterBackfill ==
    toBlock # 0 =>
        /\ loop \notin LivePhase
        /\ streamNext = 0
        /\ (loop = "stopped" /\ queryOk /\ cancelAt = "none") => loopResult = "Ok"

\* the stream yields None in this step
StreamEnds == loop = "waiting" /\ streamNext # 0 /\ streamNext' = 0

\* C13: when the stream ends the loop sleeps, then opens the subscription
\* again and goes on; run_oracle returns Ok only after a cancellation, never
\* because of a stream end.
C13_StreamEndReconnects ==
    /\ [](mode = "run_oracle" /\ loopResult = "Ok" => cancelAt # "none")
    /\ [][StreamEnds => (loop' = "sleeping" /\ loopResult' = "running")]_vars
    /\ [][(loop = "sleeping" /\ loop' # "sleeping") => loop' = "subscribing"]_vars
    /\ (loop = "sleeping" ~> loop \in {"waiting", "stopped"})

\* an event is dispatched from the subscription opened after a stream end
C13_Witness ==
    /\ mode = "run_oracle" /\ reconnects
    /\ loop = "live_handling" /\ streamNext # 0
    /\ cancelAt = "none"

\* the start has passed the determination of the kinds
KindsDetermined == prepPc \in {"models", "services", "validator", "done"}

\* the start must fail on the kinds: none passed and none registered, or a
\* passed kind that is not registered
KindsRefused ==
    \/ passed = << >> /\ registered = {}
    \/ passed # << >> /\ ~(Elems(passed) \subseteq registered)

\* C14: with no kinds passed the effective kinds are exactly the registered
\* kinds and an empty set fails the start; with kinds passed, a kind that is
\* not registered fails the start; a failed start has run no backfill, opened
\* no subscription and dispatched no event.
C14_EffectiveKinds ==
    /\ KindsDetermined =>
         /\ kinds # {}
         /\ passed = << >> => kinds = registered
         /\ passed # << >> => (kinds = Elems(passed) /\ kinds \subseteq registered)
    /\ KindsRefused => (~KindsDetermined /\ loop \in {"start", "stopped"})
    /\ prepPc = "failed" =>
         /\ loop = "stopped" /\ loopResult = "Err"
         /\ dispatched = << >> /\ streamNext = 0 /\ queried = 0

\* both registrations were read, none is registered, and the start has failed
C14_Witness ==
    /\ passed = << >> /\ registered = {}
    /\ prepIdx = 3 /\ prepPc = "failed"

\* ------------------------------------------------------------------------
\* Properties of the write operations
\* ------------------------------------------------------------------------

\* C15: in send_with_gas_hikes a further send is made only after a send that
\* failed with an underpriced error response; any other send error is the
\* last send of the call, which returns the decoded contract error.
C15_OnlyUnderpricedRetries ==
    /\ \A i \in 2..Len(sendLog) : sendLog[i - 1].outcome = "underpriced"
    /\ \A i \in 1..Len(sendLog) :
         (sendLog[i].via = "ladder" /\ sendLog[i].outcome \in {"rpc_error", "other"})
         => (i = Len(sendLog) /\ wpc = "done" /\ wresult = "ErrDecoded")

\* an underpriced attempt was followed by an attempt that failed with another
\* RPC error response, and the call has returned
C15_Witness ==
    /\ Len(sendLog) = 2
    /\ sendLog[1].outcome = "underpriced" /\ sendLog[2].outcome = "rpc_error"
    /\ wpc = "done"

\* every send of the call was an underpriced one
AllUnderpriced == \A i \in 1..Len(sendLog) : sendLog[i].outcome = "underpriced"

\* C16: send_with_gas_hikes makes at most four sends, attempt i with the i-th
\* hike of 0, 12, 24, 36 per cent, stops at the first send that succeeds (at
\* most one transaction is accepted) and returns the exhausted error exactly
\* when four sends were underpriced.
C16_LadderBounded ==
    /\ Len(sendLog) <= 4
    /\ \A i \in 1..Len(sendLog) :
         /\ sendLog[i].via = "ladder" => sendLog[i].hike = << 0, 12, 24, 36 >>[i]
         /\ sendLog[i].outcome = "ok" => i = Len(sendLog)
    /\ wresult = "ErrExhausted"
         <=> (wpc = "done" /\ Len(sendLog) = 4 /\ AllUnderpriced)

\* four sends were underpriced and the call has returned the exhausted error
C16_Witness ==
    /\ Len(sendLog) = 4 /\ AllUnderpriced
    /\ wpc = "done" /\ wresult = "ErrExhausted"

\* C17: every transaction of a state-changing contract call is sent by
\* send_with_gas_hikes, none by a direct send.
C17_AllWritesUseLadder ==
    \A i \in 1..Len(sendLog) : sendLog[i].via = "ladder"

\* C18: once the transaction is sent, wait_for_tx ends, with the receipt or
\* with an error, whatever the configuration of the node.
C18_WaitEnds == (wpc = "wait") ~> (wpc = "done")

\* ------------------------------------------------------------------------
\* Properties of handle_validation
\* ------------------------------------------------------------------------

\* C19: when getValidations shows a validation of the worker for the task (and
\* no own generation), handle_validation returns Ok(None) and sends nothing.
C19_AlreadyValidatedIgnored ==
    (CoreHandlers /\ handler = "validation" /\ guardSaw = "validated")
    => (result = "Ignored" /\ sentThis = 0)

\* C20: the scores vector has one entry per generation response of the task,
\* entry i being the projection of the validation result for response i,
\* whatever list of results the validation model returns.
C20_OneScorePerGeneration ==
    vpc = "done" =>
        /\ Len(scores) = nGens
        /\ \A i \in 1..Len(scores) :
             scores[i] = final_score_as_solidity_type(vresults[i])

\* C21: put_if_large returns the value unchanged and uploads nothing when
\* its length is at most byte_limit, the length equal to the limit included;
\* over the limit a call that returns has uploaded the value exactly once and
\* returns the serialized key, which is_key accepts, under which the network
\* holds the value and whose get, when it answers, returns the value
C21_PutIfLarge ==
    /\ stPc \in {"returned", "fetched", "fetchFailed"} =>
         IF Len(value) <= byte_limit
         THEN putResult = value /\ uploads = 0
         ELSE /\ uploads = 1
              /\ is_key(putResult) # << >>
              /\ putResult = KeyToString(is_key(putResult)[1])
              /\ is_key(putResult)[1].arweave \in DOMAIN arweave
              /\ arweave[is_key(putResult)[1].arweave] = value
    /\ stPc = "failed" => uploads = 0 /\ Len(value) > byte_limit
    /\ stPc = "fetched" => fetched = value

\* a value one byte over a limit that is not zero was uploaded and came back
\* from the network
C21_Witness ==
    /\ stPc = "fetched"
    /\ Len(value) = byte_limit + 1
    /\ byte_limit > 0
    /\ fetched = value

\* the input is UTF-8 and is no blob key
InlineText == bytes_to_string(input_bytes) = << input_bytes >> /\ is_key(input_bytes) = << >>

\* C22: the request returned by try_parse_bytes is a chat-history request if
\* its text parses as one, else a workflow if the text parses as one, else a
\* string; an input that is UTF-8 and no key never fails, its text is the
\* input itself, and it is returned as String(input) when it parses as neither
C22_ParseOrder ==
    /\ parsePc = "done" =>
         /\ parsed.variant = "ChatHistory" <=> ParsesChat(parsed.text)
         /\ parsed.variant = "Workflow" <=>
              (~ ParsesChat(parsed.text) /\ ParsesWorkflow(parsed.text))
         /\ parsed.variant = "String" <=>
              (~ ParsesChat(parsed.text) /\ ~ ParsesWorkflow(parsed.text))
    /\ InlineText =>
         /\ parsePc # "failed"
         /\ parsePc = "done" => parsed.text = input_bytes

\* a text that parses as a chat-history request and as a workflow was
\* classified, and so was a downloaded one
C22_Witness ==
    /\ parsePc = "done"
    /\ ParsesChat(parsed.text)
    /\ ParsesWorkflow(parsed.text)
    /\ ~ InlineText

\* a chat-history request whose history_id is not below nextTaskId
HistoryTooLarge ==
    /\ request.variant = "ChatHistory"
    /\ request.history_id # 0
    /\ request.history_id >= nextTaskId

\* C23: for a chat-history request with history_id >= nextTaskId and not 0,
\* execute_generation never reads getBestResponse, never starts the LLM and
\* never returns Ok; when nextTaskId was read it fails with the error of
\* the check
C23_HistoryTooLargeFails ==
    HistoryTooLarge =>
        /\ \A i \in 1..Len(calls) : calls[i] = "nextTaskId"
        /\ llm = "none"
        /\ eresult # "Ok"
        /\ epc \in {"start", "nextTaskId", "failed"}
        /\ (epc = "failed" /\ hasNode) =>
              eresult \in {"Err_history_too_large", "Err_rpc"}

\* the check has refused a history_id equal to nextTaskId
C23_Witness ==
    /\ HistoryTooLarge
    /\ request.history_id = nextTaskId
    /\ eresult = "Err_history_too_large"

\* C24: for a chat-history request with history_id = 0 the prior history is
\* empty when the execution starts, no contract read is made, and the call
\* does not need a node
C24_NoHistoryNoRead ==
    (request.variant = "ChatHistory" /\ request.history_id = 0) =>
        /\ calls = << >>
        /\ eresult # "Err_node_required"
        /\ epc = "execute" => history = << >>
        /\ epc = "done" => history = << "assistant" >>

\* a chat-history request with history_id = 0 was executed without a node
C24_Witness ==
    /\ request.variant = "ChatHistory"
    /\ request.history_id = 0
    /\ ~ hasNode
    /\ eresult = "Ok"

\* C30: every LLM attempt of execute_generation races a timeout, for every
\* variant of the request
C30_EveryAttemptTimed == llm = "running" => timer

\* the table of the projection, row r for the clamped score r
C25_Table == << 1, 64, 85, 127, 255 >>

\* C25: every score is the row of the table for the final_score brought into
\* 1..5 (a final_score under 1 taken as 1, over 5 as 5); so it is never 0,
\* lies in 1..255, and for final scores a, b in 1..5 the scores are ordered
\* as a and b are
C25_Projection ==
    vpc = "done" =>
        /\ \A i \in 1..Len(scores) :
             /\ scores[i] = C25_Table[IF vresults[i] < 1 THEN 1
                                      ELSE IF vresults[i] > 5 THEN 5
                                      ELSE vresults[i]]
             /\ scores[i] \in 1..255
        /\ \A i, j \in 1..Len(scores) :
             (vresults[i] \in 1..5 /\ vresults[j] \in 1..5) =>
                 (scores[i] <= scores[j] <=> vresults[i] <= vresults[j])

\* the final scores 0 and 255 were projected to the first and the last row,
\* in one validation
C25_Witness ==
    /\ vpc = "done"
    /\ vresults = << 0, 255 >>
    /\ scores = << 1, 255 >>

\* the text of the tag before its zero bytes begins with the name of the Swan
\* protocol, followed by a '/' or by nothing
SwanTag ==
    /\ protocol[1] = PROTOCOL
    /\ protocol[2] \in {"/", "0x00"}

\* C26: for every output and every protocol tag whose prefix before the
\* first '/' is not swan-agent-purchase, the tag of zero bytes included, the
\* post-processing succeeds with the output as output and as metadata and
\* with the offload flag set
C26_IdentityForUnknown ==
    (postPc # "call" /\ ~ SwanTag) =>
        /\ postPc = "done"
        /\ post = [output |-> output, metadata |-> output, use_storage |-> TRUE]

\* an output was post-processed under the tag of zero bytes, or under a tag
\* that holds the name of the Swan protocol after a '/'
C26_Witness ==
    /\ postPc = "done"
    /\ protocol \in { << "0x00", "0x00", "0x00" >>, << "v", "/", PROTOCOL >> }
    /\ output # << >>
    /\ post.use_storage

\* the output holds a start marker and, after it, an end marker
HasRegion ==
    \E i, j \in 1..Len(output) :
        i < j /\ output[i] = start_marker /\ output[j] = end_marker

\* the text between the first start marker and the first end marker after it
Region ==
    LET i == CHOOSE a \in 1..Len(output) :
                 /\ output[a] = start_marker
                 /\ \A b \in 1..(a - 1) : output[b] # start_marker
        j == CHOOSE a \in (i + 1)..Len(output) :
                 /\ output[a] = end_marker
                 /\ \A b \in (i + 1)..(a - 1) : output[b] # end_marker
    IN SubSeq(output, i + 1, j - 1)

\* the candidates of the region: the strings of the JSON array if the region
\* is a JSON array of strings, else its trimmed lines that are not empty
Candidates ==
    IF IsStringArray(Region)
    THEN [k \in 1..Len(Literals(Region)) |-> << Unquote(Literals(Region)[k]) >>]
    ELSE TrimmedLines(Region)

\* C27: under the Swan protocol an output that holds the markers is
\* post-processed without an error and the output ABI-decodes to the
\* candidates between the markers that are addresses, in their order; the
\* post-processing fails only for an output without the markers
C27_SwanAddresses ==
    (postPc # "call" /\ SwanTag) =>
        /\ postPc = "failed" <=> ~ HasRegion
        /\ postPc = "done" =>
             /\ abi_decode(post.output) = << FilterMap(Candidates) >>
             /\ post.metadata = output
             /\ ~ post.use_storage

\* C28: the nonce the miner returns has a hash below 2^(bits - difficulty)
\* and no smaller nonce has; the search never leaves a nonce with such a hash
\* behind; with difficulty 0 the nonce returned is 0
C28_LeastNonce ==
    /\ minePc \in {"search", "done"} =>
         \A n \in 0..(nonce - 1) : keccak[n] >= Target(difficulty)
    /\ minePc = "done" =>
         /\ keccak[nonce] < Target(difficulty)
         /\ difficulty = 0 => nonce = 0
    /\ difficulty = 0 => minePc # "exhausted"

\* the miner has returned a nonce that is not the first one tried
C28_Witness ==
    /\ minePc = "done"
    /\ nonce >= 2
    /\ difficulty > 0

\* the attempt timed out or gave WorkflowFailed
Retried(a) == a \in {"Timeout", "WorkflowFailed"}

\* C29: at most NUM_RETRIES attempts are made; every attempt but the last
\* timed out or gave WorkflowFailed; after a success or another error the
\* wrapper has returned it, with no further attempt; the error of the
\* exhausted retries is returned exactly when NUM_RETRIES attempts were made
\* and each timed out or gave WorkflowFailed
C29_BoundedRetries ==
    /\ Len(attempts) <= 4
    /\ \A i \in 1..(Len(attempts) - 1) : Retried(attempts[i])
    /\ (attempts # << >> /\ ~ Retried(attempts[Len(attempts)])) =>
          (retryPc = "done" /\ rresult = attempts[Len(attempts)])
    /\ retryPc = "done" =>
          (rresult = "ExecutionFailedAfterRetries" <=>
              (Len(attempts) = 4 /\ \A i \in 1..4 : Retried(attempts[i])))

\* the retries were exhausted by timeouts and WorkflowFailed errors both
C29_Witness ==
    /\ rresult = "ExecutionFailedAfterRetries"
    /\ \E i, j \in 1..Len(attempts) :
         attempts[i] = "Timeout" /\ attempts[j] = "WorkflowFailed"

\* The number of times execute_generation has started the executor: the call
\* sits in no loop (generation/execute.rs:29-32, 37-42, 93-98)
LlmAttempts == IF llm = "none" THEN 0 ELSE 1

\* C31: in the generation handler an LLM attempt that times out is retried up
\* to the retry bound before the task is aborted: execute_generation returns
\* the timeout error only after NUM_RETRIES attempts, so a single timed-out
\* attempt does not abort the task.
C31_TimeoutIsRetried ==
    eresult = "Err_timed_out" => LlmAttempts >= NUM_RETRIES

\* C32: when register(kind) is called by a node that is not yet registered
\* and whose token balance suffices, then after the approval step the
\* registry's allowance over the node's tokens is at least the stake amount,
\* whatever the allowance was before.
C32_RegisterAllowance ==
    (cmd = "register" /\ tokPc = "send" /\ approvals # << >>
        /\ balance >= stake)
    => allowance >= stake

\* C33: when request_task is called with a token balance of at least the
\* total fee, then after its approval step the coordinator's allowance over
\* the requester's tokens is at least the total fee, whatever the allowance
\* was before.
C33_RequestAllowance ==
    (cmd = "request_task" /\ tokPc = "send" /\ approvals # << >>)
    => allowance >= total_fee

\* a handler is in flight: an event has gone to handle_request, which has
\* not returned to the loop
Handling == loop \in {"backfill_handling", "live_handling"}

\* C34: events are handled one at a time and in delivery order: the events
\* that go to handle_request go in the order of the chain (the order of the
\* range query, then the order of arrival on the subscription), a handler
\* awaits its receipt only while it is the one in flight (or was, when the
\* cancellation dropped it with the backfill), and an event is dispatched
\* only when no handler is in flight, one event at a time.
C34_OneAtATimeInOrder ==
    /\ [](\A i, j \in DOMAIN dispatched : i < j => dispatched[i] < dispatched[j])
    /\ [](txWait => (Handling \/ loop = "stopped"))
    /\ [][dispatched' # dispatched =>
            /\ ~ Handling
            /\ ~ txWait
            /\ Handling'
            /\ Len(dispatched') = Len(dispatched) + 1
            /\ SubSeq(dispatched', 1, Len(dispatched)) = dispatched]_vars
    /\ [][(Handling /\ ~ Handling') => (loop' = "stopped" \/ txWait' = FALSE)]_vars

\* a live event is being handled after the backfill has handled an earlier
\* one
C34_Witness ==
    /\ mode = "run_oracle"
    /\ queried > 0
    /\ Len(dispatched) >= 2
    /\ dispatched[1] <= queried
    /\ dispatched[Len(dispatched)] > queried
    /\ loop = "live_handling"

\* the storage step of the handler has succeeded
StorageDone == tailPc \in {"nonce", "respond"} \/ tsent # << >>

\* r is what put_if_large returns for v: v itself up to the byte limit, the
\* string of a key over it
IsPutIfLarge(v, r) ==
    IF Len(v) > DEFAULT_BYTE_LIMIT
    THEN is_key(r) # << >> /\ is_key(r)[1].arweave \in TxIds
    ELSE r = v

\* C35: in handle_generation the on-chain output is put_if_large(processor
\* output) exactly when the processor's offload flag is true and the
\* unmodified processor output otherwise, whatever its size, while the
\* metadata is always passed through put_if_large; these are the output and
\* the metadata of the respond transaction.
C35_OffloadByFlag ==
    (tailHandler = "generation" /\ StorageDone) =>
        /\ IF tpost.use_storage
           THEN IsPutIfLarge(tpost.output, toutput)
           ELSE toutput = tpost.output
        /\ IsPutIfLarge(tpost.metadata, tmetadata)
        /\ tsent # << >> =>
             (tsent[1].output = toutput /\ tsent[1].metadata = tmetadata)

\* a Swan output over the byte limit has gone on chain as it is, its
\* metadata as a key
C35_Witness ==
    /\ tailHandler = "generation"
    /\ ~ tpost.use_storage
    /\ Len(tpost.output) > DEFAULT_BYTE_LIMIT
    /\ Len(tpost.metadata) > DEFAULT_BYTE_LIMIT
    /\ tsent # << >>
    /\ tsent[1].output = tpost.output
    /\ is_key(tsent[1].metadata) # << >>

\* C36: the generation and the validation handler mine the nonce over the
\* same preimage: the request's difficulty, the request's requester, the
\* worker's own address, the raw on-chain request.input bytes (not the
\* downloaded input) and the task id; the nonce of the transaction is the
\* mined one.
C36_SamePreimage ==
    /\ preimage # << >> =>
         preimage[1] = [difficulty |-> treq.difficulty,
                        requester |-> treq.requester,
                        responder |-> Self,
                        input |-> treq.input,
                        task_id |-> treq.task_id]
    /\ tsent # << >> =>
         (preimage # << >> /\ tsent[1].nonce = tnonce
            /\ tsent[1].task_id = treq.task_id)

\* the validation handler has responded to a task whose input is the key of
\* a blob
C36_Witness ==
    /\ tailHandler = "validation"
    /\ tinput # treq.input
    /\ tsent # << >>
    /\ tnonce > 0

\* neither the output nor the metadata exceeds the byte limit
NothingToUpload ==
    /\ Len(tpost.output) <= DEFAULT_BYTE_LIMIT
    /\ Len(tpost.metadata) <= DEFAULT_BYTE_LIMIT

\* C40: the blob-store settings are optional: when both the output and the
\* metadata are at or below the byte limit, a handler without an upload
\* wallet configured reaches the nonce mining and submits its transaction.
C40_StorageOptional ==
    (env_wallet = "None" /\ NothingToUpload /\ tailPc = "done") =>
        (preimage # << >> /\ tsent # << >>)

\* a prepare_oracle has succeeded on the node: only it sets the kinds, and
\* never to none
Prepared == node_kinds # << >>

\* the configured models the request lists
Matching == selRequest.list \cap node_workflows

C38_OnlySuccessfulPrepare ==
    /\ [][(node_kinds' # node_kinds \/ node_workflows' # node_workflows) =>
            /\ poPc = "assign"
            /\ poResult' = "Ok"
            /\ node_kinds' = pkinds
            /\ node_workflows' = model_config]_vars
    /\ [][(poResult # "Err" /\ poResult' = "Err") =>
            UNCHANGED << node_kinds, node_workflows >>]_vars
    /\ []("Validator" \in Elems(node_kinds) =>
            (wlisted /\ "GPT4o" \in node_workflows))

\* a prepare_oracle has failed on a node that an earlier one had prepared as
\* a validator
C38_Witness ==
    /\ poPc = "failed"
    /\ "Validator" \in Elems(node_kinds)
    /\ pkinds # node_kinds

====
